---- MODULE Spec2Model ----
(***************************************************************************)
(* Verification model of shelley's output_iframe tool                      *)
(* (claudetool/output_iframe.go) and of the session-start hook runner      *)
(* (server/startup_hook.go).                                               *)
(***************************************************************************)
EXTENDS Naturals, Integers, Sequences, FiniteSets, TLC

VARIABLES
    \* ---- output_iframe tool: two consecutive invocations ----
    input,      \* the raw JSON message of the latest invocation
    out,        \* the llm.ToolOut the latest invocation returned
    prevInput,  \* the raw JSON message of the invocation before it
    prevOut,    \* the llm.ToolOut of the invocation before it
    \* ---- session-start hook: the environment of one RunStartupHook call ----
    envDisable,        \* SHELLEY_DISABLE_STARTUP_HOOK: "unset", "empty" or a value
    homeOK,            \* whether os.UserHomeDir succeeds
    hookFile,          \* what is at ~/.config/shelley/on-conversation-start
    fsChanges,         \* how often the file was changed under the call
    parentCancelled,   \* whether the caller's context has been cancelled
    \* ---- session-start hook: the call itself ----
    pc,                \* where RunStartupHook stands
    hookPath,          \* the path findStartupHook returned
    ctxErr,            \* ctx.Err() of the context made by WithTimeout
    cmdOutput,         \* output returned by cmd.CombinedOutput
    cmdErr,            \* err returned by cmd.CombinedOutput
    watcher,           \* os/exec's goroutine that kills the process on ctx.Done
    watchErr,          \* the error that goroutine reports
    result,            \* the *StartupHookResult returned
    \* ---- session-start hook: the processes ----
    hookProc,          \* the hook's process
    exitStatus,        \* the status the hook exited with
    child,             \* a process the hook spawned
    childHoldsPipe,    \* whether that process holds the hook's output pipe
    pipe,              \* what was written to the output pipe, in order
    \* ---- session-start hook: what happened, recorded for the properties ----
    statCalls,         \* number of os.Stat calls on the hook file
    execCount,         \* number of processes RunStartupHook started
    lookupSaw,         \* the file as findStartupHook's os.Stat saw it
    statSaw,           \* the file as RunStartupHook's os.Stat saw it
    exitedInTime,      \* the hook exited by itself with the context still live
    expiredWhileRunning,   \* the deadline expired with the hook running
    cancelledWhileRunning  \* the caller cancelled with the hook running

toolVars == <<input, out, prevInput, prevOut>>

hookEnvVars == <<envDisable, homeOK, hookFile, fsChanges, parentCancelled>>

hookCallVars == <<pc, hookPath, ctxErr, cmdOutput, cmdErr, watcher, watchErr, result>>

hookProcVars == <<hookProc, exitStatus, child, childHoldsPipe, pipe>>

hookHistVars == <<statCalls, execCount, lookupSaw, statSaw, exitedInTime,
                  expiredWhileRunning, cancelledWhileRunning>>

hookVars == <<hookEnvVars, hookCallVars, hookProcVars, hookHistVars>>

VARIABLES
    \* ---- the message store: the database migration 011 works on ----
    conversations,     \* the conversation_id values in table conversations
    messages,          \* the table named messages
    messages_new,      \* the table named messages_new
    indexes,           \* the indexes that exist
    migPc,             \* which statement of migration 011 runs next
    lastStmt,          \* the latest statement run and how it ended
    preMigration       \* the rows of messages when migration 011 began, kept
                       \* until the next statement after the migration

dbVars == <<conversations, messages, messages_new, indexes, migPc, lastStmt,
            preMigration>>

VARIABLES
    \* ---- the conversation store: concurrent Append calls ----
    log,               \* the messages stored, of all conversations
    writer,            \* per conversation, the Append call that is its writer
    appendPc,          \* per appender, where its Append call stands
    appendConv,        \* per appender, the conversation it appends to
    appendSeq,         \* per appender, the sequence_id it was assigned
    acked              \* per conversation, the appends acknowledged

storeVars == <<log, writer, appendPc, appendConv, appendSeq, acked>>

VARIABLES
    \* ---- the tool registry: one dispatch of output_iframe after another ----
    dispPc,            \* where the dispatch stands
    dispInput,         \* the raw input dispatched
    dispOut,           \* the llm.ToolOut the dispatch returned
    runCalls           \* how often the dispatch has called the tool's Run

dispVars == <<dispPc, dispInput, dispOut, runCalls>>

VARIABLES
    \* ---- the turn orchestrator: the turns of one conversation ----
    orchState,         \* AwaitingUser, ModelCall, ToolDispatch or Finalizing
    turnLog,           \* the conversation's log: the kinds of its messages
    pending,           \* tool calls requested by the model and not yet invoked
    running,           \* tool invocations in flight
    cancelled,         \* whether the turn has been cancelled
    retries,           \* failed model calls of the turn retried so far
    rounds,            \* rounds of tool calls of the turn
    turns,             \* turns started
    invokedAfterCancel \* tool invocations issued after the turn's cancellation

orchVars == <<orchState, turnLog, pending, running, cancelled, retries, rounds,
              turns, invokedAfterCancel>>

VARIABLES
    \* ---- the MessageInput component and the browser's localStorage ----
    mounted,           \* whether a MessageInput is mounted
    inst,              \* which mount it is: the first, the second, ...
    persistKey,        \* its persistKey prop
    disabled,          \* its disabled prop
    message,           \* its state message
    submitting,        \* its state submitting
    uploadsInProgress, \* its state uploadsInProgress
    localStorage,      \* the items of localStorage
    sends,             \* the onSend promises not settled yet
    drop,              \* the handleDrop call under way
    lastEvent,         \* the latest event handled and what it did
    touchedWithoutKey  \* localStorage was used by a mount without persistKey

uiVars == <<mounted, inst, persistKey, disabled, message, submitting,
            uploadsInProgress, localStorage, sends, drop, lastEvent,
            touchedWithoutKey>>

VARIABLES
    \* ---- MessageInput's key and submit handlers, render by render ----
    formMounted,  \* whether the page shows a MessageInput
    formState,    \* its state: message and submitting
    formDisabled, \* its disabled prop
    closure,      \* what the handlers of the latest render have captured
    onSendCalls,  \* the number of onSend promises not settled yet
    lastKey       \* the latest keydown or submit event and what it did

formVars == <<formMounted, formState, formDisabled, closure, onSendCalls,
              lastKey>>

VARIABLES
    \* ---- one call of the directory picker's parseInputPath ----
    parsePc,   \* "idle": no call; "input": a path is given; "done": it is parsed
    parsePath, \* the path given
    parsed     \* what parseInputPath returned

parseVars == <<parsePc, parsePath, parsed>>

VARIABLES
    \* ---- the DirectoryPickerModal component and the listing API ----
    pickerMounted, \* whether the page holds a DirectoryPickerModal
    isOpen,        \* its isOpen prop
    initialPath,   \* its initialPath prop ("" when the parent gives none)
    inputPath,     \* its state inputPath
    loading,       \* its state loading
    error,         \* its state error
    cacheRef,      \* cacheRef.current: the listings cached, by path
    displayDir,    \* its state displayDir
    filterPrefix,  \* its state filterPrefix
    requests,      \* the api.listDirectory calls not settled yet
    serverDefault, \* the directory the server lists for a call without path
    opens,         \* how many times the modal went from closed to open
    onSelectCalls, \* how many times onSelect was called
    pickerEvent    \* the latest event of the picker and what it did

pickerVars == <<pickerMounted, isOpen, initialPath, inputPath, loading, error,
                cacheRef, displayDir, filterPrefix, requests, serverDefault,
                opens, onSelectCalls, pickerEvent>>

\* What an action of one part leaves alone: the variables of the other parts.
notToolVars == <<hookVars, dbVars, storeVars, dispVars, orchVars, uiVars,
                 formVars, parseVars, pickerVars>>

notHookVars == <<toolVars, dbVars, storeVars, dispVars, orchVars, uiVars,
                 formVars, parseVars, pickerVars>>

notDbVars == <<toolVars, hookVars, storeVars, dispVars, orchVars, uiVars,
               formVars, parseVars, pickerVars>>

notStoreVars == <<toolVars, hookVars, dbVars, dispVars, orchVars, uiVars,
                  formVars, parseVars, pickerVars>>

notDispVars == <<toolVars, hookVars, dbVars, storeVars, orchVars, uiVars,
                 formVars, parseVars, pickerVars>>

notOrchVars == <<toolVars, hookVars, dbVars, storeVars, dispVars, uiVars,
                 formVars, parseVars, pickerVars>>

notUiVars == <<toolVars, hookVars, dbVars, storeVars, dispVars, orchVars,
               formVars, parseVars, pickerVars>>

notFormVars == <<toolVars, hookVars, dbVars, storeVars, dispVars, orchVars,
                 uiVars, parseVars, pickerVars>>

notParseVars == <<toolVars, hookVars, dbVars, storeVars, dispVars, orchVars,
                  uiVars, formVars, pickerVars>>

notPickerVars == <<toolVars, hookVars, dbVars, storeVars, dispVars, orchVars,
                   uiVars, formVars, parseVars>>

vars == <<toolVars, hookVars, dbVars, storeVars, dispVars, orchVars, uiVars,
          formVars, parseVars, pickerVars>>

(***************************************************************************)
(* Bounds of the model.                                                    *)
(***************************************************************************)
MaxHtmlLen == 2

MaxTitleLen == 1

\* Chunks of output the hook and its child write at most.
MaxOutput == 2

\* Changes made to the hook file while RunStartupHook runs, at most.
MaxFsChanges == 1

(***************************************************************************)
(* JSON text as json.Unmarshal sees it.                                    *)
(*                                                                         *)
(* A JSON string is a sequence of units.  "h" is an ordinary character,    *)
(* "D800" is an ill-formed unit (an unpaired surrogate escape \ud800 or    *)
(* a byte that is not valid UTF-8), which encoding/json accepts and        *)
(* decodes to the replacement character U+FFFD, written "FFFD" here.       *)
(***************************************************************************)
Units == {"h", "D800"}

ReplacementChar == "FFFD"

StringsUpTo(n) == UNION {[1..k -> Units] : k \in 0..n}

\* JSON values other than null and strings; a Go string field takes none of them.
NonStringKinds == {"number", "object"}

JAbsent == [t |-> "absent", s |-> <<>>]

JNull == [t |-> "null", s |-> <<>>]

JString(s) == [t |-> "string", s |-> s]

JOther(k) == [t |-> k, s |-> <<>>]

FieldValues(n) ==
    {JAbsent, JNull} \cup {JOther(k) : k \in NonStringKinds}
        \cup {JString(s) : s \in StringsUpTo(n)}

\* Top-level shapes of the raw message: bytes that are not JSON at all (the
\* empty message included), the JSON values that are not objects, and objects.
\* An object is given by the member the decoder binds to each of the two
\* struct fields (it matches names without regard to case and ignores every
\* other member); objects that name a field twice are left out.
NonObjectKinds == {"invalid", "null", "number", "string", "array", "bool"}

RawMessages ==
    {[kind |-> k, html |-> JAbsent, title |-> JAbsent] : k \in NonObjectKinds}
        \cup {[kind |-> "object", html |-> h, title |-> t] :
                h \in FieldValues(MaxHtmlLen), t \in FieldValues(MaxTitleLen)}

NoMessage == [kind |-> "none", html |-> JAbsent, title |-> JAbsent]

(***************************************************************************)
(* encoding/json decoding into  struct{HTML string; Title string}.         *)
(***************************************************************************)
\* Decoding of a JSON string literal into a Go string: ill-formed units become
\* U+FFFD, everything else is copied.
DecodeUnit(u) == IF u = "D800" THEN ReplacementChar ELSE u

DecodeString(s) == [i \in 1..Len(s) |-> DecodeUnit(s[i])]

\* One struct field: a string is decoded, null and an absent key leave the
\* zero value "", anything else is an UnmarshalTypeError.
FieldError(v) == v.t \in NonStringKinds

FieldString(v) == IF v.t = "string" THEN DecodeString(v.s) ELSE <<>>

NoError == "nil"

\* json.Unmarshal(m, &input): the error it returns and the struct it leaves.
UnmarshalErr(m) ==
    CASE m.kind = "invalid" -> "SyntaxError"
      [] m.kind = "null" -> NoError
      [] m.kind \in {"number", "string", "array", "bool"} -> "UnmarshalTypeError"
      [] m.kind = "object" ->
            IF FieldError(m.html) \/ FieldError(m.title)
            THEN "UnmarshalTypeError" ELSE NoError

UnmarshalInput(m) ==
    IF m.kind = "object"
    THEN [HTML |-> FieldString(m.html), Title |-> FieldString(m.title)]
    ELSE [HTML |-> <<>>, Title |-> <<>>]

(***************************************************************************)
(* llm.ToolOut and its constructors.                                       *)
(***************************************************************************)
NilDisplay == [Type |-> "nil", HTML |-> <<>>, Title |-> <<>>]

OutputIframeDisplay(html, title) ==
    [Type |-> "output_iframe", HTML |-> html, Title |-> title]

TextContent(text) == <<[Type |-> "text", Text |-> text]>>

\* The Go string "displayed", as a sequence of characters like every other string here.
Displayed == <<"d", "i", "s", "p", "l", "a", "y", "e", "d">>

\* The message of the error outputIframeRun makes itself.
HtmlRequired == "html content is required"

ErrorToolOut(err) == [LLMContent |-> <<>>, Display |-> NilDisplay, Error |-> err]

ErrorfToolOut(msg) == ErrorToolOut(msg)

NoOut == [LLMContent |-> <<>>, Display |-> NilDisplay, Error |-> "none"]

(***************************************************************************)
(* Faulty variants of outputIframeRun, used to show that the properties    *)
(* below depend on the code.                                               *)
(***************************************************************************)
\* Forgets to copy the title into the display.
outputIframeRun_DropsTitle(m) ==
    IF UnmarshalErr(m) # NoError
    THEN ErrorToolOut(UnmarshalErr(m))
    ELSE IF UnmarshalInput(m).HTML = <<>>
    THEN ErrorfToolOut(HtmlRequired)
    ELSE [LLMContent |-> TextContent(Displayed),
          Display |-> OutputIframeDisplay(UnmarshalInput(m).HTML, <<>>),
          Error |-> NoError]

\* Lacks the check for empty html.
outputIframeRun_NoEmptyCheck(m) ==
    IF UnmarshalErr(m) # NoError
    THEN ErrorToolOut(UnmarshalErr(m))
    ELSE [LLMContent |-> TextContent(Displayed),
          Display |-> OutputIframeDisplay(UnmarshalInput(m).HTML,
                                          UnmarshalInput(m).Title),
          Error |-> NoError]

\* Ignores the error of json.Unmarshal and goes on with what was decoded.
outputIframeRun_IgnoresUnmarshalErr(m) ==
    IF UnmarshalInput(m).HTML = <<>>
    THEN ErrorfToolOut(HtmlRequired)
    ELSE [LLMContent |-> TextContent(Displayed),
          Display |-> OutputIframeDisplay(UnmarshalInput(m).HTML,
                                          UnmarshalInput(m).Title),
          Error |-> UnmarshalErr(m)]

\* Echoes the html back to the model.
outputIframeRun_EchoesHtml(m) ==
    IF UnmarshalErr(m) # NoError
    THEN ErrorToolOut(UnmarshalErr(m))
    ELSE IF UnmarshalInput(m).HTML = <<>>
    THEN ErrorfToolOut(HtmlRequired)
    ELSE [LLMContent |-> TextContent(UnmarshalInput(m).HTML),
          Display |-> OutputIframeDisplay(UnmarshalInput(m).HTML,
                                          UnmarshalInput(m).Title),
          Error |-> NoError]

(***************************************************************************)
(* outputIframeRun                                                         *)
(***************************************************************************)
outputIframeRun(m) ==
    IF UnmarshalErr(m) # NoError
    THEN ErrorToolOut(UnmarshalErr(m))
    ELSE IF UnmarshalInput(m).HTML = <<>>
    THEN ErrorfToolOut(HtmlRequired)
    ELSE [LLMContent |-> TextContent(Displayed),
          Display |-> OutputIframeDisplay(UnmarshalInput(m).HTML,
                                          UnmarshalInput(m).Title),
          Error |-> NoError]

(***************************************************************************)
(* server/startup_hook.go: StartupHookResult and the errors it carries.    *)
(***************************************************************************)
startupHookTimeout == 5

NoErr == [kind |-> "nil", cause |-> "nil"]

\* fmt.Errorf(kind) and fmt.Errorf(kind + ": %w", cause)
Errorf(kind, cause) == [kind |-> kind, cause |-> cause]

NilResult == [ptr |-> "nil", Output |-> <<>>, Error |-> NoErr]

NoResult == [ptr |-> "none", Output |-> <<>>, Error |-> NoErr]

StartupHookResult(output, err) == [ptr |-> "set", Output |-> output, Error |-> err]

\* os.Getenv: an unset variable and one set to "" both read as "".
Getenv(v) == IF v \in {"unset", "empty"} THEN "" ELSE v

\* What can be at the hook's path: nothing, a file with no execute bit, an
\* executable file, and a file with an execute bit that the kernel still
\* refuses to run (the bit is for another class of user, wrong format).
FileStates == {"absent", "noexec", "exec", "unrunnable"}

\* info.Mode()&0111 of the file
ExecBits(f) == IF f \in {"exec", "unrunnable"} THEN 1 ELSE 0

TheHookPath == "~/.config/shelley/on-conversation-start"

\* Has no check that the file exists.
findStartupHook_NoExistCheck(home, f) == IF ~home THEN "" ELSE TheHookPath

findStartupHook(home, f) ==
    IF ~home THEN ""
    ELSE IF f # "absent" THEN TheHookPath
    ELSE ""

\* Never finds the hook disabled.
HookDisabled_Never(v) == FALSE

\* line 28: os.Getenv("SHELLEY_DISABLE_STARTUP_HOOK") != ""
HookDisabled(v) == Getenv(v) # ""

\* Lets every file pass as executable.
NotExecutable_Never(f) == FALSE

\* line 42: info.Mode()&0111 == 0
NotExecutable(f) == ExecBits(f) = 0

\* lines 56-69: the result made from ctx.Err() and CombinedOutput's return.
Classify(cerr, output, err) ==
    IF cerr = "DeadlineExceeded"
    THEN StartupHookResult(output, Errorf("hook timed out after 5s", "nil"))
    ELSE IF err # "nil"
    THEN StartupHookResult(output, Errorf("hook failed", err))
    ELSE StartupHookResult(output, NoErr)

(***************************************************************************)
(* The state before RunStartupHook is called.                              *)
(***************************************************************************)
HookCallInit ==
    /\ fsChanges = 0
    /\ parentCancelled = FALSE
    /\ pc = "entry"
    /\ hookPath = ""
    /\ ctxErr = "none"
    /\ cmdOutput = <<>>
    /\ cmdErr = "nil"
    /\ watcher = "none"
    /\ watchErr = "nil"
    /\ result = NoResult
    /\ hookProc = "none"
    /\ exitStatus = 0
    /\ child = "none"
    /\ childHoldsPipe = FALSE
    /\ pipe = <<>>
    /\ statCalls = 0
    /\ execCount = 0
    /\ lookupSaw = "unseen"
    /\ statSaw = "unseen"
    /\ exitedInTime = FALSE
    /\ expiredWhileRunning = FALSE
    /\ cancelledWhileRunning = FALSE

HookInit ==
    /\ envDisable \in {"unset", "empty", "1"}
    /\ homeOK \in BOOLEAN
    /\ hookFile \in FileStates
    /\ HookCallInit

HookIdle ==
    /\ envDisable = "unset"
    /\ homeOK = TRUE
    /\ hookFile = "absent"
    /\ HookCallInit

(***************************************************************************)
(* RunStartupHook, step by step.                                           *)
(***************************************************************************)
Return(r) ==
    /\ result' = r
    /\ pc' = "returned"

\* lines 28-30
CheckDisabled ==
    /\ pc = "entry"
    /\ IF HookDisabled(envDisable)
       THEN Return(NilResult)
       ELSE pc' = "find" /\ UNCHANGED result
    /\ UNCHANGED <<notHookVars, hookEnvVars, hookPath, ctxErr, cmdOutput, cmdErr, watcher,
                   watchErr, hookProcVars, hookHistVars>>

\* lines 32-35 and findStartupHook, lines 73-86
FindHook ==
    /\ pc = "find"
    /\ hookPath' = findStartupHook(homeOK, hookFile)
    /\ IF homeOK
       THEN statCalls' = statCalls + 1 /\ lookupSaw' = hookFile
       ELSE UNCHANGED <<statCalls, lookupSaw>>
    /\ IF hookPath' = ""
       THEN Return(NilResult)
       ELSE pc' = "stat" /\ UNCHANGED result
    /\ UNCHANGED <<notHookVars, hookEnvVars, ctxErr, cmdOutput, cmdErr, watcher, watchErr,
                   hookProcVars, execCount, statSaw, exitedInTime,
                   expiredWhileRunning, cancelledWhileRunning>>

\* lines 38-44
StatHook ==
    /\ pc = "stat"
    /\ statCalls' = statCalls + 1
    /\ statSaw' = hookFile
    /\ IF hookFile = "absent"
       THEN Return(StartupHookResult(<<>>, Errorf("failed to stat hook", "ENOENT")))
       ELSE IF NotExecutable(hookFile)
       THEN Return(StartupHookResult(<<>>, Errorf("hook is not executable", "nil")))
       ELSE pc' = "context" /\ UNCHANGED result
    /\ UNCHANGED <<notHookVars, hookEnvVars, hookPath, ctxErr, cmdOutput, cmdErr, watcher,
                   watchErr, hookProcVars, execCount, lookupSaw, exitedInTime,
                   expiredWhileRunning, cancelledWhileRunning>>

\* lines 47-53: context.WithTimeout on the caller's context, and the command
MakeContext ==
    /\ pc = "context"
    /\ ctxErr' = IF parentCancelled THEN "Canceled" ELSE "nil"
    /\ pc' = "start"
    /\ UNCHANGED <<notHookVars, hookEnvVars, hookPath, cmdOutput, cmdErr, watcher, watchErr,
                   result, hookProcVars, hookHistVars>>

\* line 55, cmd.Start inside CombinedOutput: a context that is done already
\* starts nothing, a file the kernel cannot run fails to start
StartProcess ==
    /\ pc = "start"
    /\ IF ctxErr # "nil"
       THEN /\ cmdErr' = (IF ctxErr = "Canceled" THEN "context canceled"
                          ELSE "context deadline exceeded")
            /\ pc' = "classify"
            /\ UNCHANGED <<hookProc, execCount, watcher>>
       ELSE IF hookFile # "exec"
       THEN /\ cmdErr' = "fork/exec failed"
            /\ pc' = "classify"
            /\ UNCHANGED <<hookProc, execCount, watcher>>
       ELSE /\ hookProc' = "running"
            /\ execCount' = execCount + 1
            /\ watcher' = "watching"
            /\ pc' = "wait"
            /\ UNCHANGED cmdErr
    /\ UNCHANGED <<notHookVars, hookEnvVars, hookPath, ctxErr, cmdOutput, watchErr, result,
                   exitStatus, child, childHoldsPipe, pipe, statCalls, lookupSaw,
                   statSaw, exitedInTime, expiredWhileRunning,
                   cancelledWhileRunning>>

\* os/exec watchCtx: once the context is done it kills the hook's process, and
\* that process alone.  Killing a process that has exited and is not yet
\* waited for succeeds or reports os.ErrProcessDone, as the platform has it.
KillOnDone ==
    /\ pc = "wait"
    /\ watcher = "watching"
    /\ ctxErr \in {"Canceled", "DeadlineExceeded"}
    /\ watcher' = "done"
    /\ \/ /\ hookProc = "running"
          /\ hookProc' = "killed"
          /\ watchErr' = ctxErr
       \/ /\ hookProc = "exited"
          /\ \E delivered \in BOOLEAN :
                watchErr' = IF delivered THEN ctxErr ELSE "nil"
          /\ UNCHANGED hookProc
    /\ UNCHANGED <<notHookVars, hookEnvVars, pc, hookPath, ctxErr, cmdOutput, cmdErr, result,
                   exitStatus, child, childHoldsPipe, pipe, hookHistVars>>

\* The error of the process state that Process.Wait returns.
ExitError(proc, status) ==
    IF proc = "killed" THEN "signal: killed"
    ELSE IF status # 0 THEN "exit status 1"
    ELSE "nil"

\* cmd.Wait, first half: Process.Wait reaps the process, and the watching
\* goroutine is stopped and asked for its error
ProcessWait ==
    /\ pc = "wait"
    /\ hookProc \in {"exited", "killed"}
    /\ hookProc' = "reaped"
    /\ watcher' = "done"
    /\ cmdErr' = IF ExitError(hookProc, exitStatus) # "nil"
                 THEN ExitError(hookProc, exitStatus)
                 ELSE IF watchErr = "Canceled" THEN "context canceled"
                 ELSE IF watchErr = "DeadlineExceeded" THEN "context deadline exceeded"
                 ELSE "nil"
    /\ pc' = "awaitPipe"
    /\ UNCHANGED <<notHookVars, hookEnvVars, hookPath, ctxErr, cmdOutput, watchErr, result,
                   exitStatus, child, childHoldsPipe, pipe, hookHistVars>>

\* Some process still has the write end of the output pipe open.
PipeHeld ==
    \/ hookProc = "running"
    \/ child = "running" /\ childHoldsPipe

\* cmd.Wait, second half: with no WaitDelay set it waits, without limit, for
\* the goroutine copying the pipe, which ends when every writer has closed
\* it; CombinedOutput then returns all that was written
AwaitGoroutines ==
    /\ pc = "awaitPipe"
    /\ ~PipeHeld
    /\ cmdOutput' = pipe
    /\ pc' = "classify"
    /\ UNCHANGED <<notHookVars, hookEnvVars, hookPath, ctxErr, cmdErr, watcher, watchErr,
                   result, hookProcVars, hookHistVars>>

\* lines 56-69
ClassifyAndReturn ==
    /\ pc = "classify"
    /\ Return(Classify(ctxErr, cmdOutput, cmdErr))
    /\ UNCHANGED <<notHookVars, hookEnvVars, hookPath, ctxErr, cmdOutput, cmdErr, watcher,
                   watchErr, hookProcVars, hookHistVars>>

(***************************************************************************)
(* The environment: the timer, the caller, the file system, the hook and   *)
(* the process it may spawn.                                               *)
(***************************************************************************)
\* The timer of context.WithTimeout fires.
DeadlineExpires ==
    /\ pc \in {"start", "wait", "awaitPipe", "classify"}
    /\ ctxErr = "nil"
    /\ ctxErr' = "DeadlineExceeded"
    /\ expiredWhileRunning' = (expiredWhileRunning \/ hookProc = "running")
    /\ UNCHANGED <<notHookVars, hookEnvVars, pc, hookPath, cmdOutput, cmdErr, watcher,
                   watchErr, result, hookProcVars, statCalls, execCount,
                   lookupSaw, statSaw, exitedInTime, cancelledWhileRunning>>

\* The caller cancels the context it passed.
ParentCancel ==
    /\ pc # "returned"
    /\ ~parentCancelled
    /\ parentCancelled' = TRUE
    /\ ctxErr' = IF ctxErr = "nil" THEN "Canceled" ELSE ctxErr
    /\ cancelledWhileRunning' = (cancelledWhileRunning \/ hookProc = "running")
    /\ UNCHANGED <<notHookVars, envDisable, homeOK, hookFile, fsChanges, pc, hookPath,
                   cmdOutput, cmdErr, watcher, watchErr, result, hookProcVars,
                   statCalls, execCount, lookupSaw, statSaw, exitedInTime,
                   expiredWhileRunning>>

\* Someone creates, removes or chmods the hook file between two steps of the call.
FileChanges ==
    /\ pc \in {"find", "stat", "context", "start"}
    /\ fsChanges < MaxFsChanges
    /\ fsChanges' = fsChanges + 1
    /\ \E f \in FileStates \ {hookFile} : hookFile' = f
    /\ UNCHANGED <<notHookVars, envDisable, homeOK, parentCancelled, hookCallVars,
                   hookProcVars, hookHistVars>>

HookWrites ==
    /\ hookProc = "running"
    /\ Len(pipe) < MaxOutput
    /\ pipe' = Append(pipe, "hook")
    /\ UNCHANGED <<notHookVars, hookEnvVars, hookCallVars, hookProc, exitStatus, child,
                   childHoldsPipe, hookHistVars>>

\* The hook starts a process of its own, which inherits the output pipe
\* unless the hook redirects its output.
HookSpawns ==
    /\ hookProc = "running"
    /\ child = "none"
    /\ child' = "running"
    /\ \E holds \in BOOLEAN : childHoldsPipe' = holds
    /\ UNCHANGED <<notHookVars, hookEnvVars, hookCallVars, hookProc, exitStatus, pipe,
                   hookHistVars>>

HookExits ==
    /\ hookProc = "running"
    /\ hookProc' = "exited"
    /\ \E st \in {0, 1} : exitStatus' = st
    /\ exitedInTime' = (ctxErr = "nil")
    /\ UNCHANGED <<notHookVars, hookEnvVars, hookCallVars, child, childHoldsPipe, pipe,
                   statCalls, execCount, lookupSaw, statSaw, expiredWhileRunning,
                   cancelledWhileRunning>>

ChildWrites ==
    /\ child = "running"
    /\ childHoldsPipe
    /\ Len(pipe) < MaxOutput
    /\ pipe' = Append(pipe, "child")
    /\ UNCHANGED <<notHookVars, hookEnvVars, hookCallVars, hookProc, exitStatus, child,
                   childHoldsPipe, hookHistVars>>

\* The spawned process ends by itself, which closes its end of the pipe.
ChildExits ==
    /\ child = "running"
    /\ child' = "exited"
    /\ childHoldsPipe' = FALSE
    /\ UNCHANGED <<notHookVars, hookEnvVars, hookCallVars, hookProc, exitStatus, pipe,
                   hookHistVars>>

HookProgramStep ==
    \/ CheckDisabled
    \/ FindHook
    \/ StatHook
    \/ MakeContext
    \/ StartProcess
    \/ KillOnDone
    \/ ProcessWait
    \/ AwaitGoroutines
    \/ ClassifyAndReturn

HookEnvironmentStep ==
    \/ DeadlineExpires
    \/ ParentCancel
    \/ FileChanges
    \/ HookWrites
    \/ HookSpawns
    \/ HookExits
    \/ ChildWrites
    \/ ChildExits

HookNext == HookProgramStep \/ HookEnvironmentStep

(***************************************************************************)
(* The tool as a state machine: the model invokes it with any raw message. *)
(***************************************************************************)
ToolInit ==
    /\ input = NoMessage
    /\ out = NoOut
    /\ prevInput = NoMessage
    /\ prevOut = NoOut

Invoke ==
    /\ \E m \in RawMessages :
        /\ input' = m
        /\ out' = outputIframeRun(m)
    /\ prevInput' = input
    /\ prevOut' = out
    /\ UNCHANGED notToolVars

ToolNext == Invoke

(***************************************************************************)
(* The message store: table messages as migration 011 defines it           *)
(* (db/schema/011-add-startup-hook-message-type.sql), the statements run   *)
(* against it, and the migration itself, statement by statement.           *)
(*                                                                         *)
(* A table is the set of its rows together with the CHECK of its column    *)
(* type.  A row is given by its message_id, conversation_id and type; the  *)
(* six other columns take the values PayloadOf gives the message_id, which *)
(* differ from row to row and from column to column.  A NULL message_id,   *)
(* which a TEXT PRIMARY KEY admits, is left out.                           *)
(***************************************************************************)
NULL == "NULL"

MessageIds == {"m1", "m2"}

ConversationIds == {"c1", "c2"}

\* CHECK (type IN (...)) of messages_new.
NewTypeCheck_WithoutStartupHook ==
    {"user", "agent", "tool", "system", "error", "gitinfo"}

NewTypeCheck ==
    {"user", "agent", "tool", "system", "error", "gitinfo", "startup-hook"}

\* The CHECK of the table the migration replaces: the same without the type
\* the migration adds.
OldTypeCheck == NewTypeCheck \ {"startup-hook"}

\* The types a statement may try to insert: the seven, a text outside them, a
\* text that differs from one of them in case only, and no type.
TypeCandidates ==
    {"user", "agent", "tool", "system", "error", "gitinfo", "startup-hook",
     "bogus", "User", NULL}

PayloadOf(mid) ==
    IF mid = "m1"
    THEN [sequence_id |-> 1, llm_data |-> "llm1", user_data |-> "user1",
          usage_data |-> "usage1", created_at |-> "t1",
          display_data |-> "display1"]
    ELSE [sequence_id |-> 2, llm_data |-> "llm2", user_data |-> NULL,
          usage_data |-> NULL, created_at |-> "t2",
          display_data |-> "display2"]

Row(mid, cid, ty) ==
    [message_id      |-> mid,
     conversation_id |-> cid,
     sequence_id     |-> PayloadOf(mid).sequence_id,
     type            |-> ty,
     llm_data        |-> PayloadOf(mid).llm_data,
     user_data       |-> PayloadOf(mid).user_data,
     usage_data      |-> PayloadOf(mid).usage_data,
     created_at      |-> PayloadOf(mid).created_at,
     display_data    |-> PayloadOf(mid).display_data]

NoTable == [exists |-> FALSE, check |-> {}, rows |-> {}]

Table(check, rows) == [exists |-> TRUE, check |-> check, rows |-> rows]

Index(name, table, columns) ==
    [name |-> name, table |-> table, columns |-> columns]

idx_messages_conversation_id ==
    Index("idx_messages_conversation_id", "messages", <<"conversation_id">>)

idx_messages_conversation_sequence ==
    Index("idx_messages_conversation_sequence", "messages",
          <<"conversation_id", "sequence_id">>)

idx_messages_type == Index("idx_messages_type", "messages", <<"type">>)

\* Whether the connection enforces foreign keys (PRAGMA foreign_keys).
ForeignKeysOn == TRUE

\* A CHECK fails only when its expression is false: x IN (...) is NULL for a
\* NULL x, and the CHECK passes.
CheckHolds(check, ty) == ty = NULL \/ ty \in check

\* How INSERT of row into table t ends: "ok" or the constraint that failed.
\* NOT NULL is checked column by column, before the CHECK, the key and, at
\* the end of the statement, the foreign key.
InsertOutcome(t, row, convs) ==
    IF row.conversation_id = NULL THEN "NOT NULL conversation_id"
    ELSE IF row.type = NULL THEN "NOT NULL type"
    ELSE IF ~CheckHolds(t.check, row.type) THEN "CHECK"
    ELSE IF \E r \in t.rows : r.message_id = row.message_id THEN "PRIMARY KEY"
    ELSE IF ForeignKeysOn /\ row.conversation_id \notin convs THEN "FOREIGN KEY"
    ELSE "ok"

\* ON DELETE CASCADE: the rows left when conversation c is deleted.
OnDeleteCascade_DeletesAll(rows, c) == {}

OnDeleteCascade(rows, c) ==
    IF ForeignKeysOn
    THEN {r \in rows : r.conversation_id # c}
    ELSE rows

\* The SELECT list of the copy, column by column.
CopyRow_DropsDisplayData(r) ==
    [r EXCEPT !.display_data = NULL]

CopyRow(r) ==
    [message_id      |-> r.message_id,
     conversation_id |-> r.conversation_id,
     sequence_id     |-> r.sequence_id,
     type            |-> r.type,
     llm_data        |-> r.llm_data,
     user_data       |-> r.user_data,
     usage_data      |-> r.usage_data,
     created_at      |-> r.created_at,
     display_data    |-> r.display_data]

NoStmt == [stmt |-> "none", arg |-> NULL, outcome |-> "ok",
           added |-> {}, removed |-> {}]

\* The record of a statement: what it was, how it ended, and the rows of
\* messages it added and removed.
Stmt(stmt, arg, outcome, before, after) ==
    [stmt |-> stmt, arg |-> arg, outcome |-> outcome,
     added |-> after \ before, removed |-> before \ after]

DbInit ==
    /\ conversations = {}
    /\ messages = Table(OldTypeCheck, {})
    /\ messages_new = NoTable
    /\ indexes = {idx_messages_conversation_id,
                  idx_messages_conversation_sequence, idx_messages_type}
    /\ migPc = "old"
    /\ lastStmt = NoStmt
    /\ preMigration = {}

\* The store when no statement is run against it.
DbIdle == DbInit

\* The application runs statements before the migration and after it.
Serving == migPc \in {"old", "done"}

CreateConversation ==
    /\ Serving
    /\ \E c \in ConversationIds :
        /\ c \notin conversations
        /\ conversations' = conversations \cup {c}
        /\ lastStmt' = Stmt("insert conversation", c, "ok", messages.rows,
                            messages.rows)
    /\ preMigration' = {}
    /\ UNCHANGED <<notDbVars, messages, messages_new, indexes, migPc>>

InsertMessage ==
    /\ Serving
    /\ \E mid \in MessageIds, cid \in ConversationIds \cup {NULL},
          ty \in TypeCandidates :
        LET row == Row(mid, cid, ty)
            outcome == InsertOutcome(messages, row, conversations)
            after == IF outcome = "ok" THEN messages.rows \cup {row}
                     ELSE messages.rows
        IN  /\ messages' = [messages EXCEPT !.rows = after]
            /\ lastStmt' = Stmt("insert message", ty, outcome, messages.rows,
                                after)
    /\ preMigration' = {}
    /\ UNCHANGED <<notDbVars, conversations, messages_new, indexes, migPc>>

DeleteConversation ==
    /\ Serving
    /\ \E c \in conversations :
        LET after == OnDeleteCascade(messages.rows, c)
        IN  /\ conversations' = conversations \ {c}
            /\ messages' = [messages EXCEPT !.rows = after]
            /\ lastStmt' = Stmt("delete conversation", c, "ok", messages.rows,
                                after)
    /\ preMigration' = {}
    /\ UNCHANGED <<notDbVars, messages_new, indexes, migPc>>

\* Migration 011, one action per statement.  A statement that fails ends the
\* migration.
CreateMessagesNew ==
    /\ migPc = "old"
    /\ preMigration' = messages.rows
    /\ IF messages_new.exists
       THEN /\ migPc' = "failed"
            /\ UNCHANGED messages_new
       ELSE /\ migPc' = "created"
            /\ messages_new' = Table(NewTypeCheck, {})
    /\ lastStmt' = Stmt("create table", "messages_new", "ok", messages.rows,
                        messages.rows)
    /\ UNCHANGED <<notDbVars, conversations, messages, indexes>>

\* INSERT INTO messages_new ... SELECT ... FROM messages: every row of
\* messages, through the SELECT list, is inserted under the constraints of
\* messages_new; one row that fails undoes the statement.
CopyRows ==
    /\ migPc = "created"
    /\ LET copied == {CopyRow(r) : r \in messages.rows}
           accepted == \A r \in copied :
               InsertOutcome(Table(messages_new.check, copied \ {r}), r,
                             conversations) = "ok"
       IN  IF accepted /\ Cardinality(copied) = Cardinality(messages.rows)
           THEN /\ messages_new' = [messages_new EXCEPT !.rows = copied]
                /\ migPc' = "copied"
           ELSE /\ migPc' = "failed"
                /\ UNCHANGED messages_new
    /\ lastStmt' = Stmt("insert select", "messages_new", "ok", messages.rows,
                        messages.rows)
    /\ UNCHANGED <<notDbVars, conversations, messages, indexes, preMigration>>

\* DROP TABLE takes the table's indexes with it.
DropMessages ==
    /\ migPc = "copied"
    /\ messages' = NoTable
    /\ indexes' = {i \in indexes : i.table # "messages"}
    /\ migPc' = "dropped"
    /\ lastStmt' = Stmt("drop table", "messages", "ok", messages.rows, {})
    /\ UNCHANGED <<notDbVars, conversations, messages_new, preMigration>>

RenameMessagesNew ==
    /\ migPc = "dropped"
    /\ messages' = messages_new
    /\ messages_new' = NoTable
    /\ indexes' = {IF i.table = "messages_new"
                   THEN [i EXCEPT !.table = "messages"] ELSE i : i \in indexes}
    /\ migPc' = "renamed"
    /\ lastStmt' = Stmt("rename table", "messages_new", "ok", {},
                        messages_new.rows)
    /\ UNCHANGED <<notDbVars, conversations, preMigration>>

\* CREATE INDEX fails when the name is taken or the table is missing.
CreateIndex(idx, from, to) ==
    /\ migPc = from
    /\ IF messages.exists /\ \A i \in indexes : i.name # idx.name
       THEN /\ indexes' = indexes \cup {idx}
            /\ migPc' = to
       ELSE /\ migPc' = "failed"
            /\ UNCHANGED indexes
    /\ lastStmt' = Stmt("create index", idx.name, "ok", messages.rows,
                        messages.rows)
    /\ UNCHANGED <<notDbVars, conversations, messages, messages_new,
                   preMigration>>

CreateIndexConversationId ==
    CreateIndex(idx_messages_conversation_id, "renamed", "index1")

CreateIndexConversationSequence ==
    CreateIndex(idx_messages_conversation_sequence, "index1", "index2")

CreateIndexType ==
    CreateIndex(idx_messages_type, "index2", "done")

DbNext ==
    \/ CreateConversation
    \/ InsertMessage
    \/ DeleteConversation
    \/ CreateMessagesNew
    \/ CopyRows
    \/ DropMessages
    \/ RenameMessagesNew
    \/ CreateIndexConversationId
    \/ CreateIndexConversationSequence
    \/ CreateIndexType

(***************************************************************************)
(* The conversation store's Append under concurrent callers.  The table    *)
(* puts no constraint on sequence_id beyond NOT NULL, and the index on     *)
(* (conversation_id, sequence_id) is not UNIQUE: the numbering is Append's *)
(* work.  Append is modelled from the specification: one writer at a time  *)
(* per conversation assigns the next sequence_id and stores the message,   *)
(* and the call is acknowledged once the message is stored.                *)
(***************************************************************************)
MaxAppends == 3

Appenders == {"a1", "a2"}

NoWriter == "none"

NoConversation == "none"

RowsOf(c) == {r \in log : r.conversation_id = c}

SequenceIdsOf(c) == {r.sequence_id : r \in RowsOf(c)}

InFlight(c) == {a \in Appenders : appendPc[a] # "idle" /\ appendConv[a] = c}

\* The single-writer discipline: a call becomes the writer of a conversation
\* only when no other call is.
WriterFree_Always(c) == TRUE

WriterFree(c) == writer[c] = NoWriter

\* The next sequence_id of a conversation: one more than the largest stored,
\* 1 for the first message.
NextSequenceId(c) ==
    IF RowsOf(c) = {} THEN 1
    ELSE 1 + CHOOSE n \in SequenceIdsOf(c) : \A k \in SequenceIdsOf(c) : k <= n

StoreInit ==
    /\ log = {}
    /\ writer = [c \in ConversationIds |-> NoWriter]
    /\ appendPc = [a \in Appenders |-> "idle"]
    /\ appendConv = [a \in Appenders |-> NoConversation]
    /\ appendSeq = [a \in Appenders |-> 0]
    /\ acked = [c \in ConversationIds |-> 0]

\* The store with no Append call under way.
StoreIdle == StoreInit

CallAppend ==
    /\ \E a \in Appenders, c \in ConversationIds :
        /\ appendPc[a] = "idle"
        /\ Cardinality(RowsOf(c)) + Cardinality(InFlight(c)) < MaxAppends
        /\ appendPc' = [appendPc EXCEPT ![a] = "waiting"]
        /\ appendConv' = [appendConv EXCEPT ![a] = c]
    /\ UNCHANGED <<notStoreVars, log, writer, appendSeq, acked>>

BecomeWriter ==
    /\ \E a \in Appenders :
        /\ appendPc[a] = "waiting"
        /\ WriterFree(appendConv[a])
        /\ writer' = [writer EXCEPT ![appendConv[a]] = a]
        /\ appendPc' = [appendPc EXCEPT ![a] = "writing"]
    /\ UNCHANGED <<notStoreVars, log, appendConv, appendSeq, acked>>

AssignSequence ==
    /\ \E a \in Appenders :
        /\ appendPc[a] = "writing"
        /\ appendSeq' = [appendSeq EXCEPT ![a] = NextSequenceId(appendConv[a])]
        /\ appendPc' = [appendPc EXCEPT ![a] = "assigned"]
    /\ UNCHANGED <<notStoreVars, log, writer, appendConv, acked>>

\* The INSERT: nothing in the table rejects a (conversation_id, sequence_id)
\* pair that is stored already.
StoreMessage ==
    /\ \E a \in Appenders :
        /\ appendPc[a] = "assigned"
        /\ log' = log \cup {[message_id |-> Cardinality(log) + 1,
                             conversation_id |-> appendConv[a],
                             sequence_id |-> appendSeq[a]]}
        /\ appendPc' = [appendPc EXCEPT ![a] = "stored"]
    /\ UNCHANGED <<notStoreVars, writer, appendConv, appendSeq, acked>>

Acknowledge ==
    /\ \E a \in Appenders :
        /\ appendPc[a] = "stored"
        /\ writer' = [writer EXCEPT ![appendConv[a]] =
                         IF @ = a THEN NoWriter ELSE @]
        /\ acked' = [acked EXCEPT ![appendConv[a]] = @ + 1]
        /\ appendPc' = [appendPc EXCEPT ![a] = "idle"]
        /\ appendConv' = [appendConv EXCEPT ![a] = NoConversation]
        /\ appendSeq' = [appendSeq EXCEPT ![a] = 0]
    /\ UNCHANGED <<notStoreVars, log>>

StoreNext ==
    \/ CallAppend
    \/ BecomeWriter
    \/ AssignSequence
    \/ StoreMessage
    \/ Acknowledge

(***************************************************************************)
(* The tool registry's dispatch of output_iframe.  The tool declares its   *)
(* input schema and its Run function (OutputIframeTool); the dispatch is   *)
(* modelled from the specification: it validates the raw input against the *)
(* declared schema and calls Run only when the input passes.               *)
(***************************************************************************)
\* outputIframeInputSchema: an object, with html, html a string, title a
\* string when it is there.  JSON null is not a string.
SchemaValid_IgnoresRequired(m) ==
    /\ m.kind = "object"
    /\ m.html.t \in {"absent", "string"}
    /\ m.title.t \in {"absent", "string"}

SchemaValid(m) ==
    /\ m.kind = "object"
    /\ m.html.t = "string"
    /\ m.title.t \in {"absent", "string"}

ValidationError == "ValidationError"

DispInit ==
    /\ dispPc = "idle"
    /\ dispInput = NoMessage
    /\ dispOut = NoOut
    /\ runCalls = 0

\* The registry with no dispatch made.
DispIdle == DispInit

Dispatch ==
    /\ dispPc \in {"idle", "returned"}
    /\ \E m \in RawMessages : dispInput' = m
    /\ dispOut' = NoOut
    /\ runCalls' = 0
    /\ dispPc' = "validating"
    /\ UNCHANGED notDispVars

Validate ==
    /\ dispPc = "validating"
    /\ IF SchemaValid(dispInput)
       THEN /\ dispPc' = "invoking"
            /\ UNCHANGED dispOut
       ELSE /\ dispOut' = ErrorToolOut(ValidationError)
            /\ dispPc' = "returned"
    /\ UNCHANGED <<notDispVars, dispInput, runCalls>>

Run ==
    /\ dispPc = "invoking"
    /\ dispOut' = outputIframeRun(dispInput)
    /\ runCalls' = runCalls + 1
    /\ dispPc' = "returned"
    /\ UNCHANGED <<notDispVars, dispInput>>

DispNext ==
    \/ Dispatch
    \/ Validate
    \/ Run

(***************************************************************************)
(* The turn orchestrator, modelled from the specification's state machine: *)
(* AwaitingUser -> ModelCall -> ToolDispatch -> ModelCall -> ... ->        *)
(* Finalizing -> AwaitingUser, with retried model calls and cancellation.  *)
(* The log holds the kind of each message: "user", "tool", "agent" (the    *)
(* final answer), "partial" (a partial answer) and "error".  Appends to    *)
(* the log succeed: a turn aborted by a persistence failure is not         *)
(* modelled.                                                               *)
(***************************************************************************)
MaxTurns == 2

MaxToolCalls == 2

MaxRounds == 2

MaxRetries == 1

\* The messages that end a turn.
TerminalMessages == {"agent", "partial", "error"}

\* What a cancelled turn persists: a partial answer or an error.
CancelMessages == {"partial", "error"}

InFlightStates == {"ModelCall", "ToolDispatch"}

\* Cancellation stops the issuing of new tool invocations.
MayInvoke_Always(c) == TRUE

MayInvoke(c) == ~c

OrchInit ==
    /\ orchState = "AwaitingUser"
    /\ turnLog = <<>>
    /\ pending = 0
    /\ running = 0
    /\ cancelled = FALSE
    /\ retries = 0
    /\ rounds = 0
    /\ turns = 0
    /\ invokedAfterCancel = 0

\* The orchestrator with no turn started.
OrchIdle == OrchInit

\* AwaitingUser -> ModelCall: a user message has been appended.
UserMessage ==
    /\ orchState = "AwaitingUser"
    /\ turns < MaxTurns
    /\ turnLog' = Append(turnLog, "user")
    /\ orchState' = "ModelCall"
    /\ turns' = turns + 1
    /\ cancelled' = FALSE
    /\ retries' = 0
    /\ rounds' = 0
    /\ invokedAfterCancel' = 0
    /\ UNCHANGED <<notOrchVars, pending, running>>

\* ModelCall -> ToolDispatch: the response requests tool calls.
ModelRequestsTools ==
    /\ orchState = "ModelCall"
    /\ ~cancelled
    /\ rounds < MaxRounds
    /\ \E n \in 1..MaxToolCalls : pending' = n
    /\ rounds' = rounds + 1
    /\ orchState' = "ToolDispatch"
    /\ UNCHANGED <<notOrchVars, turnLog, running, cancelled, retries, turns,
                   invokedAfterCancel>>

\* ModelCall -> Finalizing: the response is a final answer.
ModelAnswers ==
    /\ orchState = "ModelCall"
    /\ ~cancelled
    /\ orchState' = "Finalizing"
    /\ UNCHANGED <<notOrchVars, turnLog, pending, running, cancelled, retries,
                   rounds, turns, invokedAfterCancel>>

\* A model call fails: it is retried, a bounded number of times, and then
\* surfaced as an error message that ends the turn.
ModelFails ==
    /\ orchState = "ModelCall"
    /\ ~cancelled
    /\ IF retries < MaxRetries
       THEN /\ retries' = retries + 1
            /\ UNCHANGED <<orchState, turnLog>>
       ELSE /\ turnLog' = Append(turnLog, "error")
            /\ orchState' = "AwaitingUser"
            /\ UNCHANGED retries
    /\ UNCHANGED <<notOrchVars, pending, running, cancelled, rounds, turns,
                   invokedAfterCancel>>

\* ToolDispatch issues one of the requested tool invocations.
InvokeTool ==
    /\ orchState = "ToolDispatch"
    /\ pending > 0
    /\ MayInvoke(cancelled)
    /\ pending' = pending - 1
    /\ running' = running + 1
    /\ invokedAfterCancel' = invokedAfterCancel + (IF cancelled THEN 1 ELSE 0)
    /\ UNCHANGED <<notOrchVars, orchState, turnLog, cancelled, retries, rounds,
                   turns>>

\* A tool invocation returns (with a result, an error, or because its
\* cancellation reached it); its result is appended as a tool message.
ToolReturns ==
    /\ orchState = "ToolDispatch"
    /\ running > 0
    /\ running' = running - 1
    /\ turnLog' = Append(turnLog, "tool")
    /\ UNCHANGED <<notOrchVars, orchState, pending, cancelled, retries, rounds,
                   turns, invokedAfterCancel>>

\* ToolDispatch -> ModelCall: every requested tool has returned.
ToolsDone ==
    /\ orchState = "ToolDispatch"
    /\ ~cancelled
    /\ pending = 0
    /\ running = 0
    /\ orchState' = "ModelCall"
    /\ UNCHANGED <<notOrchVars, turnLog, pending, running, cancelled, retries,
                   rounds, turns, invokedAfterCancel>>

\* Finalizing: appends the agent message, -> AwaitingUser.
Finalize ==
    /\ orchState = "Finalizing"
    /\ turnLog' = Append(turnLog, "agent")
    /\ orchState' = "AwaitingUser"
    /\ UNCHANGED <<notOrchVars, pending, running, cancelled, retries, rounds,
                   turns, invokedAfterCancel>>

\* Client disconnect or explicit abort while the turn is in flight.
Cancel ==
    /\ orchState \in InFlightStates
    /\ ~cancelled
    /\ cancelled' = TRUE
    /\ UNCHANGED <<notOrchVars, orchState, turnLog, pending, running, retries,
                   rounds, turns, invokedAfterCancel>>

\* The cancelled turn ends: once the invocations in flight have returned it
\* persists a terminal message and drops the tool calls not yet invoked.
PersistTerminal ==
    /\ orchState \in InFlightStates
    /\ cancelled
    /\ running = 0
    /\ \E m \in CancelMessages : turnLog' = Append(turnLog, m)
    /\ pending' = 0
    /\ orchState' = "AwaitingUser"
    /\ UNCHANGED <<notOrchVars, running, cancelled, retries, rounds, turns,
                   invokedAfterCancel>>

OrchNext ==
    \/ UserMessage
    \/ ModelRequestsTools
    \/ ModelAnswers
    \/ ModelFails
    \/ InvokeTool
    \/ ToolReturns
    \/ ToolsDone
    \/ Finalize
    \/ Cancel
    \/ PersistTerminal

(***************************************************************************)
(* The MessageInput component (ui/src/components/MessageInput.tsx): its    *)
(* state, the handlers of submit, change and drop, the continuations of    *)
(* the promises they await, and the effect that persists the draft.        *)
(*                                                                         *)
(* React renders again, and runs the effects, after every handler and      *)
(* continuation and before the next event, so the state read by an event   *)
(* handler is the current one; a handler that awaits keeps the values of   *)
(* the render it was created in.  A message is a sequence of tokens: the   *)
(* characters "a" and " ", and the bracketed texts uploadFile inserts.     *)
(* Speech input, paste and injected text are left out.                     *)
(***************************************************************************)
MaxMessageLen == 2

MaxFiles == 2

MaxMounts == 2

PERSIST_KEY_PREFIX == "shelley_draft_"

\* persistKey is optional.
NoKey == "unset"

\* The key the component is mounted with, when it is given one.
PersistKeys == {"k1"}

Char(c) == <<"char", c>>

\* `[uploading ${file.name}...]`, `[${data.path}]`, `[upload failed: ...]`
LoadingText(f) == <<"uploading", f>>

PathText(f) == <<"path", f>>

ErrorText(f) == <<"upload failed", f>>

\* The i-th file of a drop.
File(i) == IF i = 1 THEN "f1" ELSE IF i = 2 THEN "f2" ELSE "f3"

EmptyMessage == <<>>

\* message.trim() is empty
Blank(m) == \A i \in 1..Len(m) : m[i] = Char(" ")

\* m.substring(0, p) and m.substring(p)
SubstringTo(m, p) == SubSeq(m, 1, p)

SubstringFrom(m, p) == SubSeq(m, p + 1, Len(m))

\* m.replace(old, new): the first occurrence, if there is one.
Replace(m, old, new) ==
    IF \E i \in 1..Len(m) : m[i] = old
    THEN LET first == CHOOSE i \in 1..Len(m) :
                 m[i] = old /\ \A j \in 1..(i - 1) : m[j] # old
         IN  [m EXCEPT ![first] = new]
    ELSE m

\* localStorage: the items that exist, by key.
StorageKey(key) == <<PERSIST_KEY_PREFIX, key>>

\* At the start localStorage holds the draft of another conversation.
OtherItems == [k \in {StorageKey("k2")} |-> <<Char("a")>>]

HasItem(items, k) == k \in DOMAIN items

\* getItem(k) || ""
GetItemOrEmpty(items, k) == IF HasItem(items, k) THEN items[k] ELSE EmptyMessage

SetItem(items, k, v) ==
    [x \in DOMAIN items \cup {k} |-> IF x = k THEN v ELSE items[x]]

RemoveItem(items, k) == [x \in DOMAIN items \ {k} |-> items[x]]

\* if (persistKey): the draft is kept in localStorage only when the prop is
\* set.
UsesStorage(key) == key # NoKey

\* The initial message of a mount.
InitialMessage(key, items) ==
    IF UsesStorage(key) THEN GetItemOrEmpty(items, StorageKey(key))
    ELSE EmptyMessage

\* The effect that persists the draft, run after a render in which message
\* (or persistKey) changed, and after the first render.
PersistDraft_NeverRemoves(key, m, items) ==
    IF UsesStorage(key) /\ m # EmptyMessage
    THEN SetItem(items, StorageKey(key), m)
    ELSE items

PersistDraft(key, m, items) ==
    IF UsesStorage(key)
    THEN IF m # EmptyMessage THEN SetItem(items, StorageKey(key), m)
         ELSE RemoveItem(items, StorageKey(key))
    ELSE items

\* The same after a render from message old to message new.
Rendered(key, old, new, items) ==
    IF old # new THEN PersistDraft(key, new, items) ELSE items

NoDrop == [inst |-> 0, files |-> 0, i |-> 0, message |-> EmptyMessage]

\* The record of an event: which it was, whether it called onSend, whether it
\* changed the message or the items of localStorage, whether submitting was
\* set before it, whether it acted on the mounted component; for a drop
\* that has settled the number of files and the message before the drop, for
\* a mount the draft that was stored before it.
Event(kind, invoked, changed, wasSubmitting, live) ==
    [kind |-> kind, invoked |-> invoked, changed |-> changed,
     wasSubmitting |-> wasSubmitting, live |-> live, files |-> 0,
     before |-> EmptyMessage]

NoEvent == Event("none", FALSE, FALSE, FALSE, FALSE)

\* Whether a step changes the message or an item of localStorage.
Changed == message' # message \/ localStorage' # localStorage

\* Whether a mount without persistKey uses localStorage.
Touches(key) == key = NoKey /\ UsesStorage(key)

UiInit ==
    /\ mounted = FALSE
    /\ inst = 0
    /\ persistKey = NoKey
    /\ disabled = FALSE
    /\ message = EmptyMessage
    /\ submitting = FALSE
    /\ uploadsInProgress = 0
    /\ localStorage = OtherItems
    /\ sends = <<>>
    /\ drop = NoDrop
    /\ lastEvent = NoEvent
    /\ touchedWithoutKey = FALSE

\* No MessageInput is mounted.
UiIdle == UiInit

Mount ==
    /\ ~mounted
    /\ inst < MaxMounts
    /\ \E key \in PersistKeys \cup {NoKey}, d \in BOOLEAN :
        LET m == InitialMessage(key, localStorage)
            items == PersistDraft(key, m, localStorage)
        IN  /\ persistKey' = key
            /\ disabled' = d
            /\ message' = m
            /\ localStorage' = items
            /\ touchedWithoutKey' = (touchedWithoutKey \/ Touches(key))
            /\ lastEvent' =
                   [Event("mount", FALSE, items # localStorage, FALSE, TRUE)
                    EXCEPT !.before =
                        GetItemOrEmpty(localStorage, StorageKey(key))]
    /\ mounted' = TRUE
    /\ inst' = inst + 1
    /\ submitting' = FALSE
    /\ uploadsInProgress' = 0
    /\ UNCHANGED <<notUiVars, sends, drop>>

\* The component goes; the promises its handlers await stay.
Unmount ==
    /\ mounted
    /\ mounted' = FALSE
    /\ persistKey' = NoKey
    /\ disabled' = FALSE
    /\ message' = EmptyMessage
    /\ submitting' = FALSE
    /\ uploadsInProgress' = 0
    /\ UNCHANGED <<notUiVars, inst, localStorage, sends, drop,
                   touchedWithoutKey>>
    /\ lastEvent' = Event("unmount", FALSE, FALSE, submitting, TRUE)

\* The parent renders the component with the other value of disabled.
SetDisabled ==
    /\ mounted
    /\ disabled' = ~disabled
    /\ lastEvent' = Event("props", FALSE, FALSE, submitting, TRUE)
    /\ UNCHANGED <<notUiVars, mounted, inst, persistKey, message, submitting,
                   uploadsInProgress, localStorage, sends, drop,
                   touchedWithoutKey>>

\* What the user can turn the text into with one key: one character more, or
\* the last token less.
EditsOf(m) ==
    {Append(m, Char(c)) : c \in IF Len(m) < MaxMessageLen THEN {"a", " "} ELSE {}}
        \cup {SubSeq(m, 1, Len(m) - 1) : x \in IF Len(m) > 0 THEN {0} ELSE {}}

\* onChange of the textarea, which takes input only when it is not disabled.
Change ==
    /\ mounted
    /\ ~(disabled \/ uploadsInProgress > 0)
    /\ \E new \in EditsOf(message) :
        /\ message' = new
        /\ localStorage' = Rendered(persistKey, message, new, localStorage)
    /\ touchedWithoutKey' = (touchedWithoutKey \/ Touches(persistKey))
    /\ UNCHANGED <<notUiVars, mounted, inst, persistKey, disabled, submitting,
                   uploadsInProgress, sends, drop>>
    /\ lastEvent' = Event("change", FALSE, Changed, submitting, TRUE)

\* The condition of handleSubmit.
MaySubmit_IgnoresSubmitting(m, d, s, u) == ~Blank(m) /\ ~d /\ u = 0

MaySubmit(m, d, s, u) == ~Blank(m) /\ ~d /\ ~s /\ u = 0

\* handleSubmit, up to its await: called by the form's onSubmit and by
\* handleKeyDown for Enter.
handleSubmit ==
    /\ mounted
    /\ IF MaySubmit(message, disabled, submitting, uploadsInProgress)
       THEN /\ submitting' = TRUE
            /\ sends' = Append(sends, [inst |-> inst, persistKey |-> persistKey])
       ELSE UNCHANGED <<submitting, sends>>
    /\ UNCHANGED <<notUiVars, mounted, inst, persistKey, disabled, message,
                   uploadsInProgress, localStorage, drop, touchedWithoutKey>>
    /\ lastEvent' = Event("submit", Len(sends') > Len(sends), Changed,
                          submitting, TRUE)

Without(q, i) == SubSeq(q, 1, i - 1) \o SubSeq(q, i + 1, Len(q))

\* onSend resolves: handleSubmit goes on after its await, with the persistKey
\* of the render it was called in.  A component that is gone takes no state.
SendResolved_KeepsMessage(m) == m

SendResolved(m) == EmptyMessage

SendResolves ==
    /\ \E i \in 1..Len(sends) :
        LET live == mounted /\ sends[i].inst = inst
            key == sends[i].persistKey
            new == IF live THEN SendResolved(message) ELSE message
            removed == IF UsesStorage(key)
                       THEN RemoveItem(localStorage, StorageKey(key))
                       ELSE localStorage
            items == IF live THEN Rendered(persistKey, message, new, removed)
                     ELSE removed
        IN  /\ sends' = Without(sends, i)
            /\ message' = new
            /\ submitting' = (IF live THEN FALSE ELSE submitting)
            /\ localStorage' = items
            /\ touchedWithoutKey' = (touchedWithoutKey \/ Touches(key))
            /\ lastEvent' = Event("send resolved", FALSE, Changed, submitting,
                                  live)
    /\ UNCHANGED <<notUiVars, mounted, inst, persistKey, disabled,
                   uploadsInProgress, drop>>

\* onSend rejects: the catch keeps the message.
SendRejects ==
    /\ \E i \in 1..Len(sends) :
        LET live == mounted /\ sends[i].inst = inst
        IN  /\ sends' = Without(sends, i)
            /\ submitting' = (IF live THEN FALSE ELSE submitting)
            /\ UNCHANGED <<notUiVars, mounted, inst, persistKey, disabled,
                           message, uploadsInProgress, localStorage, drop,
                           touchedWithoutKey>>
            /\ lastEvent' = Event("send rejected", FALSE, Changed, submitting,
                                  live)

\* Files are dropped on a message the user typed: one without the texts of
\* earlier uploads.
PlainText(m) == \A i \in 1..Len(m) : m[i] \in {Char("a"), Char(" ")}

\* uploadFile, up to its await: the message it sets, computed from the
\* message of the render the caller was created in.
uploadFile(closureMessage, insertPosition, f) ==
    SubstringTo(closureMessage, insertPosition)
        \o <<LoadingText(f)>>
        \o SubstringFrom(closureMessage, insertPosition)

\* handleDrop with one file or more, up to the await of the first upload.
\* The position is the textarea's selectionStart, or the end of the message.
handleDrop ==
    /\ mounted
    /\ drop = NoDrop
    /\ PlainText(message)
    /\ \E n \in 1..MaxFiles, insertPosition \in 0..Len(message) :
        LET new == uploadFile(message, insertPosition, File(1))
        IN  /\ message' = new
            /\ localStorage' = Rendered(persistKey, message, new, localStorage)
            /\ drop' = [inst |-> inst, files |-> n, i |-> 1,
                        message |-> message]
    /\ uploadsInProgress' = uploadsInProgress + 1
    /\ touchedWithoutKey' = (touchedWithoutKey \/ Touches(persistKey))
    /\ UNCHANGED <<notUiVars, mounted, inst, persistKey, disabled, submitting,
                   sends>>
    /\ lastEvent' = Event("drop", FALSE, Changed, submitting, TRUE)

\* The upload of the current file settles: uploadFile replaces the file's
\* placeholder in the current message and counts the upload down, and
\* handleDrop goes on.  With a file left it appends a space to the current
\* message and calls uploadFile for the next file, which sets the message
\* anew from the message of the render handleDrop was created in.
UploadSettles ==
    /\ drop # NoDrop
    /\ \E ok \in BOOLEAN :
        LET live == mounted /\ drop.inst = inst
            f == File(drop.i)
            more == drop.i < drop.files
            replaced == Replace(message, LoadingText(f),
                                IF ok THEN PathText(f) ELSE ErrorText(f))
            spaced == Append(replaced, Char(" "))
            next == uploadFile(drop.message, Len(drop.message),
                               File(drop.i + 1))
            new == IF ~live THEN message
                   ELSE IF more THEN next ELSE replaced
            items == Rendered(persistKey, message, new, localStorage)
        IN  /\ message' = new
            /\ localStorage' = items
            /\ uploadsInProgress' =
                   (IF live /\ ~more THEN uploadsInProgress - 1
                    ELSE uploadsInProgress)
            /\ drop' = (IF more THEN [drop EXCEPT !.i = drop.i + 1]
                        ELSE NoDrop)
            /\ lastEvent' =
                   [Event(IF more THEN "upload settled" ELSE "drop settled",
                          FALSE, Changed, submitting, live)
                    EXCEPT !.files = drop.files, !.before = drop.message]
    /\ touchedWithoutKey' = (touchedWithoutKey \/ Touches(persistKey))
    /\ UNCHANGED <<notUiVars, mounted, inst, persistKey, disabled, submitting,
                   sends>>

UiNext ==
    \/ Mount
    \/ Unmount
    \/ SetDisabled
    \/ Change
    \/ handleSubmit
    \/ SendResolves
    \/ SendRejects
    \/ handleDrop
    \/ UploadSettles

(***************************************************************************)
(* MessageInput's keyboard and submit path, render by render.  A handler   *)
(* is a closure of the render that made it: handleSubmit reads message,    *)
(* disabled, submitting and uploadsInProgress as that render saw them, and *)
(* a state update is seen by the handlers only after the next render.      *)
(* React renders some time after a state update; an event that is          *)
(* dispatched before that render runs the handlers of the render before.   *)
(* No upload is under way in this part (uploadsInProgress is 0): drops and *)
(* uploads are the subject of the part above.                              *)
(***************************************************************************)
MaxOnSend == 2

\* The keys of a keydown event.
Keys == {"Enter", "a"}

KeyboardEvent(key, shiftKey, isComposing) ==
    [key |-> key, shiftKey |-> shiftKey, isComposing |-> isComposing]

KeyboardEvents ==
    {KeyboardEvent(k, s, c) : k \in Keys, s \in BOOLEAN, c \in BOOLEAN}

\* The state of the component.
FormState(m, s) == [message |-> m, submitting |-> s]

\* What a render hands to the handlers it makes.
Closure(st, d) ==
    [message |-> st.message, submitting |-> st.submitting, disabled |-> d,
     uploadsInProgress |-> 0]

\* The textarea of a render is disabled with isDisabled.
isDisabled(c) == c.disabled \/ c.uploadsInProgress > 0

\* The record of a keydown or submit event: the event, whether handleSubmit
\* was called, whether onSend was called, whether the state changed.
KeyRecord(kind, e, called, invoked, changed) ==
    [kind |-> kind, event |-> e, called |-> called, invoked |-> invoked,
     changed |-> changed]

NoKeyboardEvent == KeyboardEvent("none", FALSE, FALSE)

NoKeyRecord == KeyRecord("none", NoKeyboardEvent, FALSE, FALSE, FALSE)

FormInit ==
    /\ formMounted = TRUE
    /\ formState = FormState(EmptyMessage, FALSE)
    /\ formDisabled \in BOOLEAN
    /\ closure = Closure(formState, formDisabled)
    /\ onSendCalls = 0
    /\ lastKey = NoKeyRecord

\* A page without a MessageInput.
FormIdle ==
    /\ formMounted = FALSE
    /\ formState = FormState(EmptyMessage, FALSE)
    /\ formDisabled = FALSE
    /\ closure = Closure(formState, formDisabled)
    /\ onSendCalls = 0
    /\ lastKey = NoKeyRecord

\* React renders the component: the handlers see the state of now.
FormRender ==
    /\ formMounted
    /\ closure # Closure(formState, formDisabled)
    /\ closure' = Closure(formState, formDisabled)
    /\ UNCHANGED <<notFormVars, formMounted, formState, formDisabled,
                   onSendCalls, lastKey>>

\* The parent renders the component with the other value of disabled.
FormSetDisabled ==
    /\ formMounted
    /\ formDisabled' = ~formDisabled
    /\ closure' = Closure(formState, formDisabled')
    /\ UNCHANGED <<notFormVars, formMounted, formState, onSendCalls, lastKey>>

\* onChange of the textarea: the text the user sees, edited by one key.
FormChange ==
    /\ formMounted
    /\ ~isDisabled(closure)
    /\ \E new \in EditsOf(closure.message) :
        formState' = [formState EXCEPT !.message = new]
    /\ UNCHANGED <<notFormVars, formMounted, formDisabled, closure,
                   onSendCalls, lastKey>>

\* handleSubmit as the render with closure c made it, up to its await.
SubmitWith(c) ==
    IF MaySubmit(c.message, c.disabled, c.submitting, c.uploadsInProgress)
    THEN /\ formState' = [formState EXCEPT !.submitting = TRUE]
         /\ onSendCalls' = onSendCalls + 1
    ELSE UNCHANGED <<formState, onSendCalls>>

\* Whether handleKeyDown calls handleSubmit for the event.
CallsSubmit_IgnoresComposing(e) == e.key = "Enter" /\ ~e.shiftKey

CallsSubmit(e) ==
    IF e.isComposing THEN FALSE ELSE e.key = "Enter" /\ ~e.shiftKey

\* onKeyDown of the textarea, which takes keys only when it is not disabled.
handleKeyDown ==
    /\ formMounted
    /\ ~isDisabled(closure)
    /\ onSendCalls < MaxOnSend
    /\ \E e \in KeyboardEvents :
        /\ IF CallsSubmit(e)
           THEN SubmitWith(closure)
           ELSE UNCHANGED <<formState, onSendCalls>>
        /\ lastKey' = KeyRecord("keydown", e, CallsSubmit(e),
                                onSendCalls' > onSendCalls,
                                formState' # formState)
    /\ UNCHANGED <<notFormVars, formMounted, formDisabled, closure>>

\* onSubmit of the form: the send button, or a submit event dispatched on it.
onSubmit ==
    /\ formMounted
    /\ onSendCalls < MaxOnSend
    /\ SubmitWith(closure)
    /\ lastKey' = KeyRecord("submit", NoKeyboardEvent, TRUE,
                            onSendCalls' > onSendCalls,
                            formState' # formState)
    /\ UNCHANGED <<notFormVars, formMounted, formDisabled, closure>>

\* onSend resolves: handleSubmit clears the message and submitting.
FormSendResolves ==
    /\ onSendCalls > 0
    /\ onSendCalls' = onSendCalls - 1
    /\ formState' = FormState(SendResolved(formState.message), FALSE)
    /\ UNCHANGED <<notFormVars, formMounted, formDisabled, closure, lastKey>>

\* onSend rejects: handleSubmit keeps the message and clears submitting.
FormSendRejects ==
    /\ onSendCalls > 0
    /\ onSendCalls' = onSendCalls - 1
    /\ formState' = [formState EXCEPT !.submitting = FALSE]
    /\ UNCHANGED <<notFormVars, formMounted, formDisabled, closure, lastKey>>

FormNext ==
    \/ FormRender
    \/ FormSetDisabled
    \/ FormChange
    \/ handleKeyDown
    \/ onSubmit
    \/ FormSendResolves
    \/ FormSendRejects

(***************************************************************************)
(* The directory picker's parseInputPath.  A path is a JavaScript string:  *)
(* a sequence of characters, here "/" and two letters.                     *)
(***************************************************************************)
MaxPathLen == 4

PathChars == {"/", "a", "b"}

PathsUpTo(n) == UNION {[1..k -> PathChars] : k \in 0..n}

EmptyPath == <<>>

RootPath == <<"/">>

\* String.prototype.endsWith, for one character.
EndsWith(path, c) == Len(path) > 0 /\ path[Len(path)] = c

\* String.prototype.lastIndexOf, for one character: indexes start at 0, and
\* -1 says the character is not there.
LastIndexOf(path, c) ==
    LET at == {i \in 1..Len(path) : path[i] = c}
    IN  IF at = {} THEN -1
        ELSE (CHOOSE i \in at : \A j \in at : j <= i) - 1

\* String.prototype.slice(from, to) with 0 <= from and 0 <= to <= length.
Slice(path, from, to) == SubSeq(path, from + 1, to)

\* a || b of two strings: the empty string is falsy.
OrElse(a, b) == IF a = EmptyPath THEN b ELSE a

Parsed(dirPath, prefix) == [dirPath |-> dirPath, prefix |-> prefix]

parseInputPath_NoRootCase(path) ==
    IF path = EmptyPath THEN Parsed(EmptyPath, EmptyPath)
    ELSE IF EndsWith(path, "/")
    THEN Parsed(OrElse(Slice(path, 0, Len(path) - 1), RootPath), EmptyPath)
    ELSE LET lastSlash == LastIndexOf(path, "/")
         IN  IF lastSlash = -1 THEN Parsed(EmptyPath, path)
             ELSE Parsed(Slice(path, 0, lastSlash),
                         Slice(path, lastSlash + 1, Len(path)))

parseInputPath(path) ==
    IF path = EmptyPath THEN Parsed(EmptyPath, EmptyPath)
    ELSE IF EndsWith(path, "/")
    THEN Parsed(OrElse(Slice(path, 0, Len(path) - 1), RootPath), EmptyPath)
    ELSE LET lastSlash == LastIndexOf(path, "/")
         IN  IF lastSlash = -1 THEN Parsed(EmptyPath, path)
             ELSE IF lastSlash = 0
             THEN Parsed(RootPath, Slice(path, 1, Len(path)))
             ELSE Parsed(Slice(path, 0, lastSlash),
                         Slice(path, lastSlash + 1, Len(path)))

ParseInit ==
    /\ parsePc = "input"
    /\ parsePath \in PathsUpTo(MaxPathLen)
    /\ parsed = Parsed(EmptyPath, EmptyPath)

\* No path is given.
ParseIdle ==
    /\ parsePc = "idle"
    /\ parsePath = EmptyPath
    /\ parsed = Parsed(EmptyPath, EmptyPath)

ParseInput ==
    /\ parsePc = "input"
    /\ parsed' = parseInputPath(parsePath)
    /\ parsePc' = "done"
    /\ UNCHANGED <<notParseVars, parsePath>>

ParseNext == ParseInput

(***************************************************************************)
(* The DirectoryPickerModal component.  The component stays mounted while  *)
(* its parent opens and closes it (it renders nothing when isOpen is       *)
(* false), so its state and cacheRef live across opens.  React runs the    *)
(* effects of a render in the order the component declares them, and       *)
(* renders again when an effect changed the state: an action below is an   *)
(* event, the effects it sets off and the renders that follow.  A listing  *)
(* carries the number of the open during which its API call was made; its  *)
(* entries are what the directory held then.  The server is not part of    *)
(* the component: it lists the directories ServerDirs, under their clean   *)
(* paths, and answers a call without path with a directory of its choice.  *)
(***************************************************************************)
MaxInputLen == 2

MaxOpens == 2

MaxRequests == 2

\* What the user types in the path field.
InputChars == {"/", "a"}

HomePath == <<"/", "a">>

ServerDirs == {RootPath, HomePath}

\* null, for error.
Null == "null"

\* null, for a CachedDirectory.
NoDir == [path |-> EmptyPath, parent |-> EmptyPath, fetched |-> 0]

\* The parent the server reports: "" for the root.
ParentOf(path) == IF path = RootPath THEN EmptyPath ELSE RootPath

\* The names of the directories in a directory.
EntriesOf(path) == IF path = RootPath THEN {<<"a">>} ELSE {}

\* dirData of a successful response to a call made during open number n.
CachedDirectory(path, n) ==
    [path |-> path, parent |-> ParentOf(path), fetched |-> n]

EmptyCache == [k \in {} |-> NoDir]

\* Map.get and Map.set of cacheRef.current.
CacheGet(cache, k) == IF k \in DOMAIN cache THEN cache[k] ELSE NoDir

CacheSet(cache, k, v) ==
    [x \in DOMAIN cache \cup {k} |-> IF x = k THEN v ELSE cache[x]]

\* The server's clean form of a path: no slash doubled, none at the end.
RECURSIVE Clean(_)
Clean(path) ==
    IF Len(path) <= 1 THEN path
    ELSE IF path[1] = "/" /\ path[2] = "/" THEN Clean(Tail(path))
    ELSE IF Len(path) = 2 /\ path[2] = "/" THEN <<path[1]>>
    ELSE <<path[1]>> \o Clean(Tail(path))

\* The directory the server lists for a call: path || undefined is sent.
ServerPath(path, default) == IF path = EmptyPath THEN default ELSE Clean(path)

\* The initializer of inputPath, and what the effect on open sets it to.
InitialInput(initial) ==
    IF initial = EmptyPath THEN EmptyPath
    ELSE IF EndsWith(initial, "/") THEN initial
    ELSE initial \o RootPath

\* The component's state, cacheRef and the calls under way as one value, with
\* the loadDirectory calls of the event that is being handled.
Picker ==
    [isOpen |-> isOpen, inputPath |-> inputPath, loading |-> loading,
     error |-> error, cache |-> cacheRef, displayDir |-> displayDir,
     filterPrefix |-> filterPrefix, requests |-> requests, calls |-> <<>>]

\* The record of one loadDirectory call: the path asked for, the cache entry
\* of that path at the call, what the call returned at once (NoDir when it
\* went to the API), and whether it called the API.
LoadCall(path, entry, returned, api) ==
    [path |-> path, entry |-> entry, returned |-> returned, api |-> api]

\* loadDirectory up to its await, called during open number n: the state
\* after it (p), and the listing it returned from the cache (dir).
loadDirectory(p, path, n) ==
    LET normalizedPath == OrElse(path, RootPath)
        cached == CacheGet(p.cache, normalizedPath)
        q == IF cached # NoDir THEN p
             ELSE [p EXCEPT !.loading = TRUE, !.error = Null,
                            !.requests = Append(@, [path |-> path,
                                                    opened |-> n])]
    IN  [p |-> [q EXCEPT !.calls = Append(@,
                   LoadCall(path, CacheGet(p.cache, normalizedPath), cached,
                            Len(q.requests) > Len(p.requests)))],
         dir |-> cached]

\* The then of the effect's loadDirectory call.
ThenDisplay(p, dir) ==
    IF dir # NoDir THEN [p EXCEPT !.displayDir = dir, !.error = Null] ELSE p

\* The effect "Update display when input changes", for a listing that the
\* cache holds to the end; a call to the API goes on in ApiSettles.
UpdateDisplay(p, n) ==
    IF ~p.isOpen THEN p
    ELSE LET r == parseInputPath(p.inputPath)
             l == loadDirectory([p EXCEPT !.filterPrefix = r.prefix],
                                r.dirPath, n)
         IN  ThenDisplay(l.p, l.dir)

\* The effect "Initialize when modal opens".
InitializeOnOpen(p, initial) ==
    IF p.isOpen
    THEN [p EXCEPT !.inputPath = InitialInput(initial), !.cache = EmptyCache]
    ELSE p

\* A render in which inputPath is p.inputPath, after one in which it was old:
\* the effect that depends on inputPath runs again when it changed.
AfterInput(p, old, n) ==
    IF p.inputPath # old THEN UpdateDisplay(p, n) ELSE p

\* The record of an event: which it was, the keyboard event when it was a
\* keydown, whether it called onSelect and with which path, the
\* loadDirectory calls it made, the cache before it, and for a response what
\* loadDirectory returned.
PickerEvent(kind, e, selected, calls, cacheBefore, returned) ==
    [kind |-> kind, event |-> e, selected |-> selected, path |-> EmptyPath,
     calls |-> calls, cacheBefore |-> cacheBefore, returned |-> returned]

NoPickerEvent ==
    PickerEvent("none", NoKeyboardEvent, FALSE, <<>>, EmptyCache, NoDir)

\* The state after an event.
Becomes(p) ==
    /\ isOpen' = p.isOpen
    /\ inputPath' = p.inputPath
    /\ loading' = p.loading
    /\ error' = p.error
    /\ cacheRef' = p.cache
    /\ displayDir' = p.displayDir
    /\ filterPrefix' = p.filterPrefix
    /\ requests' = p.requests

PickerInit ==
    /\ pickerMounted = TRUE
    /\ isOpen = FALSE
    /\ initialPath \in {EmptyPath, HomePath}
    /\ inputPath = InitialInput(initialPath)
    /\ loading = FALSE
    /\ error = Null
    /\ cacheRef = EmptyCache
    /\ displayDir = NoDir
    /\ filterPrefix = EmptyPath
    /\ requests = <<>>
    /\ serverDefault \in ServerDirs
    /\ opens = 0
    /\ onSelectCalls = 0
    /\ pickerEvent = NoPickerEvent

\* A page without a DirectoryPickerModal.
PickerIdle ==
    /\ pickerMounted = FALSE
    /\ isOpen = FALSE
    /\ initialPath = EmptyPath
    /\ inputPath = EmptyPath
    /\ loading = FALSE
    /\ error = Null
    /\ cacheRef = EmptyCache
    /\ displayDir = NoDir
    /\ filterPrefix = EmptyPath
    /\ requests = <<>>
    /\ serverDefault = RootPath
    /\ opens = 0
    /\ onSelectCalls = 0
    /\ pickerEvent = NoPickerEvent

\* The parent opens the modal: the render with isOpen runs the effect on the
\* input (with the inputPath the component has), then the effect on open;
\* the render after that runs the effect on the input again when the path
\* was changed.
Open ==
    /\ pickerMounted
    /\ ~isOpen
    /\ opens < MaxOpens
    /\ LET n == opens + 1
           p1 == UpdateDisplay([Picker EXCEPT !.isOpen = TRUE], n)
           p2 == InitializeOnOpen(p1, initialPath)
           p3 == AfterInput(p2, inputPath, n)
       IN  /\ Len(p3.requests) <= MaxRequests
           /\ Becomes(p3)
           /\ opens' = n
           /\ pickerEvent' = PickerEvent("open", NoKeyboardEvent, FALSE,
                                         p3.calls, cacheRef, NoDir)
    /\ UNCHANGED <<notPickerVars, pickerMounted, initialPath, serverDefault,
                   onSelectCalls>>

\* onClose from the close button, Cancel or the backdrop: the parent closes.
Close ==
    /\ pickerMounted
    /\ isOpen
    /\ isOpen' = FALSE
    /\ pickerEvent' = PickerEvent("close", NoKeyboardEvent, FALSE, <<>>,
                                  cacheRef, NoDir)
    /\ UNCHANGED <<notPickerVars, pickerMounted, initialPath, inputPath,
                   loading, error, cacheRef, displayDir, filterPrefix,
                   requests, serverDefault, opens, onSelectCalls>>

\* setInputPath by an event of the open modal, and the render after it.
SetInputPath(kind, new) ==
    LET p == AfterInput([Picker EXCEPT !.inputPath = new], inputPath, opens)
    IN  /\ Len(p.requests) <= MaxRequests
        /\ Becomes(p)
        /\ pickerEvent' = PickerEvent(kind, NoKeyboardEvent, FALSE, p.calls,
                                      cacheRef, NoDir)
        /\ UNCHANGED <<notPickerVars, pickerMounted, initialPath,
                       serverDefault, opens, onSelectCalls>>

\* What the user can turn the path into with one key.
PathEditsOf(path) ==
    {Append(path, c) : c \in IF Len(path) < MaxInputLen THEN InputChars ELSE {}}
        \cup {SubSeq(path, 1, Len(path) - 1) :
                  x \in IF Len(path) > 0 THEN {0} ELSE {}}

\* onChange of the path field.
ChangeInput ==
    /\ pickerMounted
    /\ isOpen
    /\ \E new \in PathEditsOf(inputPath) : SetInputPath("change", new)

\* String.prototype.startsWith; the names here are in lower case.
StartsWith(name, prefix) ==
    /\ Len(prefix) <= Len(name)
    /\ SubSeq(name, 1, Len(prefix)) = prefix

filteredEntries ==
    IF displayDir = NoDir THEN {}
    ELSE {name \in EntriesOf(displayDir.path) :
              filterPrefix = EmptyPath \/ StartsWith(name, filterPrefix)}

\* The listing is on the screen.
ListShown == isOpen /\ ~loading /\ error = Null

handleEntryClick ==
    /\ pickerMounted
    /\ ListShown
    /\ \E name \in filteredEntries :
        LET basePath == displayDir.path
            newPath == IF basePath = RootPath
                       THEN RootPath \o name \o RootPath
                       ELSE basePath \o RootPath \o name \o RootPath
        IN  SetInputPath("entry", newPath)

handleParentClick ==
    /\ pickerMounted
    /\ ListShown
    /\ displayDir # NoDir
    /\ displayDir.parent # EmptyPath
    /\ SetInputPath("parent",
                    IF displayDir.parent = RootPath THEN RootPath
                    ELSE displayDir.parent \o RootPath)

\* The path handleSelect hands to onSelect.
SelectedPath ==
    LET dirPath == parseInputPath(inputPath).dirPath
        selectedPath == IF EndsWith(inputPath, "/")
                        THEN (IF dirPath = RootPath THEN RootPath ELSE dirPath)
                        ELSE dirPath
    IN  OrElse(selectedPath, displayDir.path)

\* handleSelect: onSelect, then onClose, on which the parent closes.
Select ==
    /\ onSelectCalls' = onSelectCalls + 1
    /\ isOpen' = FALSE

\* The keydown events of the path field; handleInputKeyDown does not read
\* shiftKey.
InputKeyEvents == {e \in KeyboardEvents : ~e.shiftKey}

\* Whether handleInputKeyDown calls handleSelect for the event.
CallsSelect(e) == IF e.isComposing THEN FALSE ELSE e.key = "Enter"

\* onKeyDown of the path field.
handleInputKeyDown ==
    /\ pickerMounted
    /\ isOpen
    /\ \E e \in InputKeyEvents :
        /\ IF CallsSelect(e) THEN Select
           ELSE UNCHANGED <<onSelectCalls, isOpen>>
        /\ pickerEvent' =
               [PickerEvent("keydown", e, onSelectCalls' > onSelectCalls,
                            <<>>, cacheRef, NoDir)
                EXCEPT !.path = IF CallsSelect(e) THEN SelectedPath
                                ELSE EmptyPath]
    /\ UNCHANGED <<notPickerVars, pickerMounted, initialPath, inputPath,
                   loading, error, cacheRef, displayDir, filterPrefix,
                   requests, serverDefault, opens>>

\* The Select button, which is disabled while loading or with an error.
handleSelect ==
    /\ pickerMounted
    /\ isOpen
    /\ ~(loading \/ error # Null)
    /\ Select
    /\ pickerEvent' =
           [PickerEvent("select", NoKeyboardEvent,
                        onSelectCalls' > onSelectCalls, <<>>, cacheRef, NoDir)
            EXCEPT !.path = SelectedPath]
    /\ UNCHANGED <<notPickerVars, pickerMounted, initialPath, inputPath,
                   loading, error, cacheRef, displayDir, filterPrefix,
                   requests, serverDefault, opens>>

Outcomes == {"ok", "error", "thrown"}

\* loadDirectory after its await, for the response to requests[i]: the state
\* after it and the listing it returns.
loadDirectoryAwaited(p, i, outcome, default) ==
    LET r == p.requests[i]
        dirData == CachedDirectory(ServerPath(r.path, default), r.opened)
        q == [p EXCEPT !.requests = Without(@, i), !.loading = FALSE]
    IN  IF outcome = "ok"
        THEN [p |-> [q EXCEPT !.cache = CacheSet(@, dirData.path, dirData)],
              dir |-> dirData]
        ELSE [p |-> [q EXCEPT !.error = outcome], dir |-> NoDir]

\* A call of api.listDirectory settles: with a listing (of a directory the
\* server has), with an error in the response, or by throwing.
ApiSettles ==
    /\ \E i \in 1..Len(requests), outcome \in Outcomes :
        /\ outcome = "ok" =>
               ServerPath(requests[i].path, serverDefault) \in ServerDirs
        /\ LET l == loadDirectoryAwaited(Picker, i, outcome, serverDefault)
           IN  /\ Becomes(ThenDisplay(l.p, l.dir))
               /\ pickerEvent' = PickerEvent(outcome, NoKeyboardEvent, FALSE,
                                             <<>>, cacheRef, l.dir)
    /\ UNCHANGED <<notPickerVars, pickerMounted, initialPath, serverDefault,
                   opens, onSelectCalls>>

PickerNext ==
    \/ Open
    \/ Close
    \/ ChangeInput
    \/ handleEntryClick
    \/ handleParentClick
    \/ handleInputKeyDown
    \/ handleSelect
    \/ ApiSettles

(***************************************************************************)
(* The specifications.                                                     *)
(***************************************************************************)
\* The tool alone: no hook call is under way.
ToolSpecInit == ToolInit /\ HookIdle /\ DbIdle /\ StoreIdle /\ DispIdle
    /\ OrchIdle /\ UiIdle /\ FormIdle /\ ParseIdle /\ PickerIdle

ToolSpec == ToolSpecInit /\ [][ToolNext]_vars

\* One call of RunStartupHook in any environment; the tool is not invoked.
HookSpecInit == HookInit /\ ToolInit /\ DbIdle /\ StoreIdle /\ DispIdle
    /\ OrchIdle /\ UiIdle /\ FormIdle /\ ParseIdle /\ PickerIdle

HookSpec == HookSpecInit /\ [][HookNext]_vars

\* The same, with what the Go runtime, the kernel and the timer guarantee:
\* every step of the call is taken once it can be, and the timer fires.  The
\* hook and the process it spawned are programs of the user's: nothing makes
\* them write or exit.
HookFairSpec ==
    /\ HookSpec
    /\ WF_vars(HookProgramStep)
    /\ WF_vars(DeadlineExpires)

\* The message store: statements before, during and after migration 011.
DbSpecInit == DbInit /\ ToolInit /\ HookIdle /\ StoreIdle /\ DispIdle
    /\ OrchIdle /\ UiIdle /\ FormIdle /\ ParseIdle /\ PickerIdle

DbSpec == DbSpecInit /\ [][DbNext]_vars

\* Concurrent Append calls on the conversation store.
StoreSpecInit == StoreInit /\ ToolInit /\ HookIdle /\ DbIdle /\ DispIdle
    /\ OrchIdle /\ UiIdle /\ FormIdle /\ ParseIdle /\ PickerIdle

StoreSpec == StoreSpecInit /\ [][StoreNext]_vars

\* Dispatches of output_iframe through the registry.
DispSpecInit == DispInit /\ ToolInit /\ HookIdle /\ DbIdle /\ StoreIdle
    /\ OrchIdle /\ UiIdle /\ FormIdle /\ ParseIdle /\ PickerIdle

DispSpec == DispSpecInit /\ [][DispNext]_vars

\* The turns of one conversation.
OrchSpecInit == OrchInit /\ ToolInit /\ HookIdle /\ DbIdle /\ StoreIdle
    /\ DispIdle /\ UiIdle /\ FormIdle /\ ParseIdle /\ PickerIdle

OrchSpec == OrchSpecInit /\ [][OrchNext]_vars

\* MessageInput: mounts, events and the promises its handlers await.
UiSpecInit == UiInit /\ ToolInit /\ HookIdle /\ DbIdle /\ StoreIdle
    /\ DispIdle /\ OrchIdle /\ FormIdle /\ ParseIdle /\ PickerIdle

UiSpec == UiSpecInit /\ [][UiNext]_vars

\* MessageInput's handlers and renders, with events that may come before the
\* render that follows a state update.
FormSpecInit == FormInit /\ ToolInit /\ HookIdle /\ DbIdle /\ StoreIdle
    /\ DispIdle /\ OrchIdle /\ UiIdle /\ ParseIdle /\ PickerIdle

FormSpec == FormSpecInit /\ [][FormNext]_vars

\* parseInputPath on every path of up to MaxPathLen characters.
ParseSpecInit == ParseInit /\ ToolInit /\ HookIdle /\ DbIdle /\ StoreIdle
    /\ DispIdle /\ OrchIdle /\ UiIdle /\ FormIdle /\ PickerIdle

ParseSpec == ParseSpecInit /\ [][ParseNext]_vars

\* The directory picker: opens, closes, events of the open modal and the
\* responses of the listing API.
PickerSpecInit == PickerInit /\ ToolInit /\ HookIdle /\ DbIdle /\ StoreIdle
    /\ DispIdle /\ OrchIdle /\ UiIdle /\ FormIdle /\ ParseIdle

PickerSpec == PickerSpecInit /\ [][PickerNext]_vars

\* The keydown handlers of both components.  The two components share no
\* state, so each is taken on a page of its own: the page shows either a
\* MessageInput or a DirectoryPickerModal.
KeySpecInit ==
    /\ ToolInit /\ HookIdle /\ DbIdle /\ StoreIdle /\ DispIdle /\ OrchIdle
    /\ UiIdle /\ ParseIdle
    /\ \/ FormInit /\ PickerIdle
       \/ FormIdle /\ PickerInit

KeyNext == FormNext \/ PickerNext

KeySpec == KeySpecInit /\ [][KeyNext]_vars

(***************************************************************************)
(* Properties of outputIframeRun.                                          *)
(***************************************************************************)
Invoked == input # NoMessage

BothInvoked == Invoked /\ prevInput # NoMessage

Succeeded(o) == o.Error = NoError

\* The html field of the input is a non-empty JSON string.
HtmlIsNonEmptyString(m) ==
    m.kind = "object" /\ m.html.t = "string" /\ m.html.s # <<>>

\* The title the input gives: its string, or empty when it gives none.
InputTitle(m) == IF m.title.t = "string" THEN m.title.s ELSE <<>>

WellFormed(s) == \A i \in 1..Len(s) : s[i] # "D800"

\* d is s with every ill-formed unit replaced by U+FFFD and nothing else changed.
IsDecodingOf(d, s) ==
    /\ Len(d) = Len(s)
    /\ \A i \in 1..Len(s) : d[i] = (IF s[i] = "D800" THEN "FFFD" ELSE s[i])

OneDisplayedBlock(o) ==
    /\ Len(o.LLMContent) = 1
    /\ o.LLMContent[1].Text = <<"d", "i", "s", "p", "l", "a", "y", "e", "d">>

\* C1 as stated: for every input whose html field is a non-empty string the
\* result has Error = nil, LLMContent = ["displayed"] and Display =
\* {output_iframe, the input html unchanged, the input title or empty}.
C1_AsStated ==
    (Invoked /\ HtmlIsNonEmptyString(input)) =>
        /\ out.Error = NoError
        /\ OneDisplayedBlock(out)
        /\ out.Display = [Type |-> "output_iframe", HTML |-> input.html.s,
                          Title |-> InputTitle(input)]

\* C1, amended: for every input whose html field is a non-empty string and
\* whose title is absent, null or a string, the result has Error = nil,
\* LLMContent = ["displayed"] and Display = {output_iframe, html, title} where
\* html and title are the input's as encoding/json decodes them: unchanged
\* when well-formed, every ill-formed unit replaced by U+FFFD otherwise; the
\* title is empty when none (or null) was given.  When the title is given and
\* is neither a string nor null, Error is non-nil.
C1_DisplaysDecodedHtml ==
    (Invoked /\ HtmlIsNonEmptyString(input)) =>
        IF input.title.t \in {"absent", "null", "string"}
        THEN /\ out.Error = NoError
             /\ OneDisplayedBlock(out)
             /\ out.Display.Type = "output_iframe"
             /\ IsDecodingOf(out.Display.HTML, input.html.s)
             /\ IsDecodingOf(out.Display.Title, InputTitle(input))
             /\ WellFormed(input.html.s) => out.Display.HTML = input.html.s
             /\ WellFormed(InputTitle(input)) =>
                    out.Display.Title = InputTitle(input)
        ELSE out.Error # NoError

\* A display was made for well-formed html with a title, and the call before
\* it displayed html holding an ill-formed unit with no title given.
C1_Witness ==
    /\ HtmlIsNonEmptyString(input) /\ WellFormed(input.html.s)
    /\ input.title = [t |-> "string", s |-> <<"h">>]
    /\ out.Display = [Type |-> "output_iframe", HTML |-> input.html.s,
                      Title |-> <<"h">>]
    /\ HtmlIsNonEmptyString(prevInput) /\ ~WellFormed(prevInput.html.s)
    /\ prevInput.title.t = "absent"
    /\ prevOut.Error = NoError
    /\ prevOut.Display.HTML # prevInput.html.s

\* The html field is missing from the object, or is the empty string.
HtmlMissingOrEmpty(m) ==
    /\ m.kind = "object"
    /\ \/ m.html.t = "absent"
       \/ m.html.t = "string" /\ m.html.s = <<>>

\* C2: for every input in which html is missing or is the empty string, with
\* or without a title, the result has a non-nil Error and no Display.
C2_MissingHtmlIsError ==
    (Invoked /\ HtmlMissingOrEmpty(input)) =>
        /\ out.Error # NoError
        /\ out.Display = NilDisplay

\* Empty html with a title was refused, after missing html without a title was.
C2_Witness ==
    /\ input.kind = "object"
    /\ input.html = [t |-> "string", s |-> <<>>]
    /\ input.title = [t |-> "string", s |-> <<"h">>]
    /\ out.Error = "html content is required"
    /\ prevInput.kind = "object"
    /\ prevInput.html.t = "absent" /\ prevInput.title.t = "absent"
    /\ prevOut.Error = "html content is required"

IsToolOut(o) ==
    /\ DOMAIN o = {"LLMContent", "Display", "Error"}
    /\ o.Error \in {"nil", "SyntaxError", "UnmarshalTypeError",
                    "html content is required"}
    /\ DOMAIN o.Display = {"Type", "HTML", "Title"}
    /\ o.Display.Type \in {"nil", "output_iframe"}

\* C3: outputIframeRun is total: every raw input, bytes that are not JSON and
\* JSON with a non-string html or title included, yields a ToolOut, and that
\* ToolOut is exactly one of (Error non-nil, no Display) and (Error nil,
\* Display set).
C3_TotalAndExclusive ==
    Invoked =>
        /\ IsToolOut(out)
        /\ (out.Error # NoError) = (out.Display = NilDisplay)
        /\ (out.Error = NoError) = (out.Display.Type = "output_iframe")

\* Bytes that are not JSON were given, after JSON whose html is a string and
\* whose title is not; both calls returned an error and no display.
C3_Witness ==
    /\ input.kind = "invalid" /\ out.Error = "SyntaxError"
    /\ out.Display = NilDisplay
    /\ HtmlIsNonEmptyString(prevInput) /\ prevInput.title.t = "number"
    /\ prevOut.Error = "UnmarshalTypeError" /\ prevOut.Display = NilDisplay

\* C4: the model-visible channel does not depend on the payload: any two
\* successful invocations return the same LLMContent, the constant
\* "displayed", whatever their html and title, which go to Display alone.
C4_LLMContentIndependentOfPayload ==
    (BothInvoked /\ Succeeded(out) /\ Succeeded(prevOut)) =>
        /\ out.LLMContent = prevOut.LLMContent
        /\ \A i \in 1..Len(out.LLMContent) :
                out.LLMContent[i].Text
                    = <<"d", "i", "s", "p", "l", "a", "y", "e", "d">>

\* Two successful invocations whose html and title both differ, and whose
\* displays differ accordingly.
C4_Witness ==
    /\ BothInvoked /\ Succeeded(out) /\ Succeeded(prevOut)
    /\ input.html # prevInput.html
    /\ input.title.t = "string" /\ prevInput.title.t = "string"
    /\ input.title # prevInput.title
    /\ out.Display.HTML # prevOut.Display.HTML
    /\ out.Display.Title # prevOut.Display.Title

(***************************************************************************)
(* Properties of RunStartupHook.                                           *)
(***************************************************************************)
Returned == pc = "returned"

NoProcessStarted == execCount = 0 /\ hookProc = "none" /\ child = "none"

\* C5: when no hook file exists at ~/.config/shelley/on-conversation-start,
\* RunStartupHook returns nil and starts no process.
C5_AbsentHookReturnsNil ==
    lookupSaw = "absent" =>
        /\ Returned
        /\ result = [ptr |-> "nil", Output |-> <<>>, Error |-> NoErr]
        /\ NoProcessStarted

\* The hook is not disabled, the home directory resolves, nothing is at the
\* hook's path, and the call has returned nil.
C5_Witness ==
    /\ envDisable = "unset" /\ homeOK
    /\ hookFile = "absent" /\ lookupSaw = "absent"
    /\ Returned /\ result.ptr = "nil"

\* C6: when the hook file exists and none of its execute bits is set,
\* RunStartupHook returns a result whose Error says "not executable" and whose
\* Output is empty, and the hook is never executed.
C6_NotExecutableIsReported ==
    statSaw = "noexec" =>
        /\ Returned
        /\ result.ptr = "set"
        /\ result.Error.kind = "hook is not executable"
        /\ result.Output = <<>>
        /\ NoProcessStarted

\* A file without execute bits was found and examined, and the call returned.
C6_Witness ==
    /\ hookFile = "noexec" /\ lookupSaw = "noexec" /\ statSaw = "noexec"
    /\ Returned /\ result.Error.kind = "hook is not executable"

\* C7: when SHELLEY_DISABLE_STARTUP_HOOK is set to a non-empty value,
\* RunStartupHook returns nil whatever the hook file is, without looking at
\* the file and without starting a process.
C7_DisabledDoesNothing ==
    (envDisable \notin {"unset", "empty"} /\ pc # "entry") =>
        /\ Returned
        /\ result = [ptr |-> "nil", Output |-> <<>>, Error |-> NoErr]
        /\ statCalls = 0 /\ lookupSaw = "unseen" /\ statSaw = "unseen"
        /\ NoProcessStarted

\* The variable is set, an executable hook is in place, and the call returned nil.
C7_Witness ==
    /\ envDisable = "1" /\ homeOK /\ hookFile = "exec"
    /\ Returned /\ result.ptr = "nil"

\* C8 as stated: a hook still running when the timeout expires is terminated;
\* RunStartupHook returns the output captured so far with a timeout error,
\* and no process started for the hook, those it spawned included, remains
\* running or keeps the call blocked afterwards.
C8_AsStated ==
    (expiredWhileRunning /\ ctxErr = "DeadlineExceeded") =>
        /\ Returned =>
            /\ result.Error.kind = "hook timed out after 5s"
            /\ result.Output = pipe
            /\ hookProc # "running" /\ child # "running"
        /\ ~(pc = "awaitPipe" /\ hookProc = "reaped" /\ PipeHeld)

\* C9 as stated: a hook that exits with a non-zero status before the deadline
\* gives a result with its combined output and a 'hook failed' error wrapping
\* the exit status, not a timeout error; one that exits with status 0 before
\* the deadline gives Error = nil and its combined output.  (Stated here for
\* calls the caller does not cancel.)
C9_AsStated ==
    (Returned /\ exitedInTime /\ ~parentCancelled) =>
        /\ result.Output = pipe
        /\ exitStatus # 0 => result.Error = Errorf("hook failed", "exit status 1")
        /\ exitStatus = 0 => result.Error = NoErr

\* C10 as stated: when the caller's context is cancelled while the hook runs,
\* the hook's process is terminated and RunStartupHook eventually returns a
\* result with a non-nil Error, the process not left running.  (Stated here
\* from the point where the cancellation has killed the hook.)
C10_AsStated ==
    (cancelledWhileRunning /\ ctxErr = "Canceled" /\ hookProc = "killed")
        ~> (Returned /\ result.Error # NoErr /\ hookProc # "running")

(***************************************************************************)
(* Properties of the message store.                                        *)
(***************************************************************************)
\* The seven message types the specification names.
ClosedTypeSet ==
    {"user", "agent", "tool", "system", "error", "gitinfo", "startup-hook"}

ConstraintViolations ==
    {"NOT NULL conversation_id", "NOT NULL type", "CHECK", "PRIMARY KEY",
     "FOREIGN KEY"}

\* An INSERT into the migrated table messages was the latest statement.
InsertedAfterMigration ==
    migPc = "done" /\ lastStmt.stmt = "insert message"

\* C11: the type set is closed at the storage boundary.  Every stored row has
\* one of the seven types.  An INSERT into the migrated table with one of the
\* seven types is never rejected for its type, and when it is accepted its
\* row, with that type, is stored; an INSERT with any other type or with no
\* type ends in a constraint violation and leaves the table as it was.
C11_TypeSetClosed ==
    /\ \A r \in messages.rows \cup messages_new.rows : r.type \in ClosedTypeSet
    /\ InsertedAfterMigration /\ lastStmt.arg \in ClosedTypeSet =>
        /\ lastStmt.outcome \notin {"CHECK", "NOT NULL type"}
        /\ lastStmt.outcome = "ok" =>
            /\ Cardinality(lastStmt.added) = 1
            /\ \A r \in lastStmt.added :
                r.type = lastStmt.arg /\ r \in messages.rows
    /\ InsertedAfterMigration /\ lastStmt.arg \notin ClosedTypeSet =>
        /\ lastStmt.outcome \in ConstraintViolations
        /\ lastStmt.added = {}
        /\ lastStmt.removed = {}

\* A 'startup-hook' message has just been accepted next to a stored message,
\* and an earlier one is stored.
C11_Witness ==
    /\ InsertedAfterMigration
    /\ lastStmt.arg = "startup-hook"
    /\ lastStmt.outcome = "ok"
    /\ Cardinality(messages.rows) = 2

\* An INSERT with a type outside the set has just been rejected.
C11_RejectionReached ==
    /\ InsertedAfterMigration
    /\ lastStmt.arg \in {"bogus", "User", NULL}
    /\ lastStmt.outcome \in {"CHECK", "NOT NULL type"}
    /\ messages.rows # {}

\* C13: messages are owned by their conversation.  Every stored message
\* references a conversation that exists; deleting a conversation removes
\* every message of that conversation and no message of any other one.
C13_OwnedByConversation ==
    /\ \A r \in messages.rows \cup messages_new.rows :
        r.conversation_id \in conversations
    /\ lastStmt.stmt = "delete conversation" =>
        /\ \A r \in lastStmt.removed : r.conversation_id = lastStmt.arg
        /\ \A r \in messages.rows : r.conversation_id # lastStmt.arg
        /\ lastStmt.added = {}

\* A conversation with a message has just been deleted while another
\* conversation had a message too.
C13_Witness ==
    /\ lastStmt.stmt = "delete conversation"
    /\ lastStmt.removed # {}
    /\ messages.rows # {}

\* Migration 011 has just run its last statement.
Migrated == migPc = "done" /\ lastStmt.stmt = "create index"

IndexedOn(columns) ==
    \E i \in indexes : i.table = "messages" /\ i.columns = columns

\* C16: migration 011 preserves the log.  No statement of it fails; when it
\* has run, table messages holds exactly the rows it held before, equal in
\* all nine columns, every one of them satisfies the new type constraint,
\* messages_new is gone, and messages is indexed on conversation_id, on
\* (conversation_id, sequence_id) and on type.
C16_MigrationPreservesLog ==
    /\ migPc # "failed"
    /\ Migrated =>
        /\ messages.exists
        /\ ~messages_new.exists
        /\ messages.rows = preMigration
        /\ \A r \in messages.rows :
            r.type # NULL /\ CheckHolds(messages.check, r.type)
        /\ messages.check = ClosedTypeSet
        /\ IndexedOn(<<"conversation_id">>)
        /\ IndexedOn(<<"conversation_id", "sequence_id">>)
        /\ IndexedOn(<<"type">>)
        /\ Cardinality(indexes) = 3

\* The migration has run on a table of two messages, one of them with NULL
\* columns.
C16_Witness ==
    /\ Migrated
    /\ Cardinality(preMigration) = 2
    /\ \E r \in messages.rows : r.user_data = NULL
    /\ \E r \in messages.rows : r.user_data # NULL

(***************************************************************************)
(* Properties of Append.                                                   *)
(***************************************************************************)
\* C12: for every conversation the stored sequence_id values are exactly
\* 1..N, N the number of its stored messages, so without gap or duplicate;
\* no two stored messages share (conversation_id, sequence_id); every
\* acknowledged append is stored, and with no Append under way on the
\* conversation N is the number of acknowledged appends.
C12_SequenceContiguous ==
    /\ \A c \in ConversationIds :
        /\ SequenceIdsOf(c) = 1..Cardinality(RowsOf(c))
        /\ acked[c] <= Cardinality(RowsOf(c))
        /\ InFlight(c) = {} => acked[c] = Cardinality(RowsOf(c))
    /\ \A r1, r2 \in log :
        /\ r1.conversation_id = r2.conversation_id
        /\ r1.sequence_id = r2.sequence_id
        => r1 = r2

\* One conversation has had all its appends acknowledged; on the other, two
\* Append calls overlap, one waiting while the other has stored its message.
C12_Witness ==
    /\ acked["c1"] = MaxAppends
    /\ Cardinality(RowsOf("c1")) = MaxAppends
    /\ \E a \in Appenders : appendPc[a] = "waiting" /\ appendConv[a] = "c2"
    /\ \E a \in Appenders : appendPc[a] = "stored" /\ appendConv[a] = "c2"

(***************************************************************************)
(* Properties of the dispatch.                                             *)
(***************************************************************************)
\* The input fails the schema the tool declares, in the claim's words: it is
\* not an object, or html is missing, or html or title is not a string.
FailsDeclaredSchema(m) ==
    \/ m.kind # "object"
    \/ m.html = JAbsent
    \/ m.html.t # "string"
    \/ m.title # JAbsent /\ m.title.t # "string"

\* C14: validation precedes invocation.  While an input that fails the
\* declared schema is dispatched, Run is not called, and the dispatch returns
\* a ToolOut that bears an error.
C14_InvalidInputNeverRuns ==
    FailsDeclaredSchema(dispInput) /\ dispPc # "idle" =>
        /\ runCalls = 0
        /\ dispPc # "invoking"
        /\ dispPc = "returned" => ~Succeeded(dispOut)

\* A dispatch has returned for an input Run would have displayed, had it been
\* called: html is a non-empty string and the title is null.
C14_Witness ==
    /\ dispPc = "returned"
    /\ HtmlIsNonEmptyString(dispInput)
    /\ dispInput.title = JNull
    /\ Succeeded(outputIframeRun(dispInput))
    /\ runCalls = 0

(***************************************************************************)
(* Properties of the turn orchestrator.                                    *)
(***************************************************************************)
LastMessage == turnLog[Len(turnLog)]

Draft == GetItemOrEmpty(localStorage, StorageKey(persistKey))

Submitted == lastEvent.kind = "submit"

C18_ClearedOnlyOnSuccess ==
    /\ lastEvent.kind = "send resolved" /\ lastEvent.live =>
        /\ message = EmptyMessage
        /\ Draft = EmptyMessage
        /\ ~submitting
    /\ lastEvent.kind = "send rejected" /\ lastEvent.live =>
        /\ ~lastEvent.changed
        /\ ~submitting

\* onSend has resolved for a component with a persistKey whose draft was
\* stored: message and draft are gone.
C18_Witness ==
    /\ lastEvent.kind = "send resolved"
    /\ lastEvent.live
    /\ lastEvent.changed
    /\ lastEvent.wasSubmitting
    /\ persistKey = "k1"
    /\ message = EmptyMessage

\* C19: with persistKey set, after an edit the item stored under
\* "shelley_draft_" + persistKey is the message when that is not empty and
\* does not exist when it is empty, and a component mounted with the key
\* starts with the stored message (empty when none is stored); a component
\* without persistKey never uses localStorage.
C19_DraftRoundTrip ==
    /\ lastEvent.kind = "change" /\ persistKey # NoKey =>
        /\ message # EmptyMessage =>
            /\ HasItem(localStorage, StorageKey(persistKey))
            /\ localStorage[StorageKey(persistKey)] = message
        /\ message = EmptyMessage =>
            ~HasItem(localStorage, StorageKey(persistKey))
    /\ lastEvent.kind = "mount" /\ persistKey # NoKey =>
        /\ message = lastEvent.before
        /\ Draft = lastEvent.before
    /\ lastEvent.kind = "mount" /\ persistKey = NoKey =>
        message = EmptyMessage
    /\ ~touchedWithoutKey
    /\ ~HasItem(localStorage, StorageKey(NoKey))

\* The second mount with the key has started with the draft the first one
\* left.
C19_Witness ==
    /\ lastEvent.kind = "mount"
    /\ inst = 2
    /\ persistKey = "k1"
    /\ message = <<Char("a"), Char(" ")>>
    /\ Draft = message

RECURSIVE IsSubsequence(_, _)
\* The tokens of s occur in t, in their order.
IsSubsequence(s, t) ==
    IF s = <<>> THEN TRUE
    ELSE IF t = <<>> THEN FALSE
    ELSE IF Head(s) = Head(t) THEN IsSubsequence(Tail(s), Tail(t))
    ELSE IsSubsequence(s, Tail(t))

Occurs(token, m) == \E i \in 1..Len(m) : m[i] = token

\* C20, as stated: when the uploads of a drop of N files have all settled the
\* message holds, for each file, its path or its failure text, no
\* placeholder is left, and the text from before the drop is still there.
C20_AsStated ==
    lastEvent.kind = "drop settled" /\ lastEvent.live =>
        /\ \A i \in 1..lastEvent.files :
            Occurs(PathText(File(i)), message)
                \/ Occurs(ErrorText(File(i)), message)
        /\ \A i \in 1..lastEvent.files : ~Occurs(LoadingText(File(i)), message)
        /\ IsSubsequence(lastEvent.before, message)

(***************************************************************************)
(* The directory picker's parseInputPath (C22).                            *)
(***************************************************************************)
HasSlash(p) == \E i \in 1..Len(p) : p[i] = "/"

\* A directory path joined with a name in it.
JoinPath(dirPath, prefix) ==
    IF dirPath = EmptyPath THEN prefix
    ELSE IF dirPath = RootPath THEN RootPath \o prefix
    ELSE dirPath \o RootPath \o prefix

\* A path that starts with two slashes and has no slash after them.
DoubledRoot(path) ==
    /\ Len(path) >= 2
    /\ path[1] = "/"
    /\ path[2] = "/"
    /\ ~HasSlash(SubSeq(path, 3, Len(path)))

\* The four cases of the split, for the path given and the result r.
SplitCases(path, r) ==
    /\ path = EmptyPath => r = Parsed(EmptyPath, EmptyPath)
    /\ EndsWith(path, "/") =>
        /\ r.prefix = EmptyPath
        /\ IF path = RootPath THEN r.dirPath = RootPath
           ELSE r.dirPath \o RootPath = path
    /\ path # EmptyPath /\ ~HasSlash(path) => r = Parsed(EmptyPath, path)
    /\ HasSlash(path) /\ ~EndsWith(path, "/") =>
        /\ r.prefix # EmptyPath
        /\ IF path[1] = "/" /\ ~HasSlash(Tail(path))
           THEN r.dirPath = RootPath /\ path = RootPath \o r.prefix
           ELSE path = r.dirPath \o RootPath \o r.prefix
    /\ ~HasSlash(r.prefix)

Reconstructs(path, r) == JoinPath(r.dirPath, r.prefix) = path

\* C22 as stated: parseInputPath splits every path by the four cases, the
\* prefix has no slash, and dirPath joined with prefix is the path given.
C22_AsStated ==
    parsePc = "done" =>
        /\ SplitCases(parsePath, parsed)
        /\ Reconstructs(parsePath, parsed)

\* C22, amended: parseInputPath splits every path by the four cases and the
\* prefix has no slash; dirPath joined with prefix is the path given unless
\* the path starts with two slashes and has no slash after them ("//",
\* "//x"), and then the join is the path without its first slash.
C22_ParseSplits ==
    parsePc = "done" =>
        /\ SplitCases(parsePath, parsed)
        /\ IF DoubledRoot(parsePath)
           THEN /\ parsed.dirPath = RootPath
                /\ JoinPath(parsed.dirPath, parsed.prefix) = Tail(parsePath)
           ELSE Reconstructs(parsePath, parsed)

\* A path with a directory part of its own and a prefix has been parsed.
C22_Witness ==
    /\ parsePc = "done"
    /\ parsePath = <<"/", "a", "/", "b">>
    /\ parsed = Parsed(<<"/", "a">>, <<"b">>)

(***************************************************************************)
(* The keydown handlers (C21).                                             *)
(***************************************************************************)
\* C21: in MessageInput a keydown during an IME composition, and a keydown
\* with Shift, never calls handleSubmit (so it calls no onSend and leaves the
\* state as it was); a keydown that calls handleSubmit is Enter without Shift
\* outside a composition.  In the directory picker a keydown during an IME
\* composition never calls onSelect and leaves the modal open.
C21_ComposingNeverSubmits ==
    /\ lastKey.kind = "keydown" =>
        /\ lastKey.event.isComposing \/ lastKey.event.shiftKey =>
               ~lastKey.called /\ ~lastKey.invoked /\ ~lastKey.changed
        /\ lastKey.called \/ lastKey.invoked =>
            /\ lastKey.event.key = "Enter"
            /\ ~lastKey.event.shiftKey
            /\ ~lastKey.event.isComposing
    /\ pickerEvent.kind = "keydown" /\ pickerEvent.event.isComposing =>
           ~pickerEvent.selected /\ isOpen

\* Enter was pressed during a composition on a message that Enter alone would
\* have sent, and nothing was sent.
C21_Witness ==
    /\ lastKey.kind = "keydown"
    /\ lastKey.event = KeyboardEvent("Enter", FALSE, TRUE)
    /\ MaySubmit(closure.message, closure.disabled, closure.submitting,
                 closure.uploadsInProgress)
    /\ onSendCalls = 0

(***************************************************************************)
(* The directory picker's cache (C23, C24).                                *)
(***************************************************************************)
\* The loadDirectory calls of the latest event.
LoadCalls == {pickerEvent.calls[i] : i \in DOMAIN pickerEvent.calls}

\* A call for a path that has a cache entry returns the entry, without API.
CacheFirst ==
    \A c \in LoadCalls : c.entry # NoDir => c.returned = c.entry /\ ~c.api

\* The cache takes a listing only with a successful response; a response with
\* an error, or a failure thrown, leaves the cache as it was, sets the error
\* and returns null.
CachedOnSuccessOnly ==
    /\ \A k \in DOMAIN cacheRef :
           CacheGet(pickerEvent.cacheBefore, k) # cacheRef[k] =>
               pickerEvent.kind = "ok" /\ pickerEvent.returned = cacheRef[k]
    /\ pickerEvent.kind \in {"error", "thrown"} =>
        /\ cacheRef = pickerEvent.cacheBefore
        /\ error # Null
        /\ pickerEvent.returned = NoDir

\* The listing a call gets from the cache is the listing of the directory the
\* server lists for the path of the call.
SameDirectory ==
    \A c \in LoadCalls :
        c.returned # NoDir =>
            c.returned.path = ServerPath(c.path, serverDefault)

\* C23 as stated: loadDirectory checks the cache first (a path with a cache
\* entry gets the entry and no API call), a listing is cached only after a
\* successful response (an error or a thrown failure adds nothing, sets the
\* error and returns null), and the listing returned from the cache for a
\* path is the listing of that same path.
C23_AsStated == CacheFirst /\ CachedOnSuccessOnly /\ SameDirectory

\* The listing on the screen of the open modal.
ListingShown == ListShown /\ displayDir # NoDir

\* C24 as stated: whenever the modal is open, the listing it displays comes
\* from an API call made after the latest open, never from one made during an
\* earlier open.
C24_AsStated == ListingShown => displayDir.fetched = opens

(***************************************************************************)
(* One onSend at a time (C25).                                             *)
(***************************************************************************)
\* C25 as stated: at most one onSend call of a MessageInput is in flight at
\* any time, under any interleaving of submit events, also when two submit
\* events are handled before the component renders again.
C25_AsStated == onSendCalls <= 1

(***************************************************************************)
(* The declared schema of output_iframe against its Run (C26).             *)
(***************************************************************************)
\* C26 as stated: every input that satisfies the declared input schema of
\* output_iframe is accepted by outputIframeRun with Error = nil.
C26_AsStated == Invoked /\ SchemaValid(input) => Succeeded(out)

====
